---- MODULE Spec2Model ----
(***************************************************************************)
(* Sentinal SRE agent: policy engine, approval workflow, authentication    *)
(* middleware, execute-fix / verify-resolution stages and rollback         *)
(* manager, modelled as state machines over the key/value state store,     *)
(* the incident stream and the publish/subscribe topics.                   *)
(***************************************************************************)
EXTENDS Integers, Sequences, FiniteSets, Bags, TLC

(***************************************************************************)
(* Bounds of the model.                                                    *)
(***************************************************************************)
MaxIncidents == 1      \* alert ids that can be generated in one behaviour

(***************************************************************************)
(* Text: JavaScript strings are TLA+ strings; toLowerCase and includes are *)
(* computed character by character.                                        *)
(***************************************************************************)
UpperChars == <<"A","B","C","D","E","F","G","H","I","J","K","L","M",
                "N","O","P","Q","R","S","T","U","V","W","X","Y","Z">>
LowerChars == <<"a","b","c","d","e","f","g","h","i","j","k","l","m",
                "n","o","p","q","r","s","t","u","v","w","x","y","z">>

lowerChar(c) ==
  IF \E k \in 1..26 : UpperChars[k] = c
  THEN LowerChars[CHOOSE k \in 1..26 : UpperChars[k] = c]
  ELSE c

toLowerCase(s) ==
  LET lowered[k \in 0..Len(s)] ==
        IF k = 0 THEN "" ELSE lowered[k - 1] \o lowerChar(SubSeq(s, k, k))
  IN lowered[Len(s)]

includes(s, t) ==
  \E k \in 0..(Len(s) - Len(t)) : SubSeq(s, k + 1, k + Len(t)) = t

startsWith(s, t) ==
  Len(s) >= Len(t) /\ SubSeq(s, 1, Len(t)) = t

(***************************************************************************)
(* Domain values.                                                          *)
(***************************************************************************)
AlertTypes == {"high_memory", "container_down", "disk_full",
               "network_latency", "cpu_spike", "sandbox_disk_full"}
RiskLevels == {"low", "medium", "high"}
NoAlertType == "unknown"   \* metadata absent or without alertType
UserRoles == {"admin", "operator", "viewer"}

VARIABLES
  \* --- policy evaluation on its own -------------------------------------
  polRca,            \* the RCA result handed to evaluatePolicy
  polRules,          \* content of state group policy-rules (key default)
  polDecision,       \* result of evaluatePolicy, or NoDecision
  polEmitted,        \* events the handler publishes for the decision
  \* --- middleware chain on its own --------------------------------------
  authReq,           \* request: headers and query parameters
  authRequired,      \* role the endpoint is gated with
  authResp           \* response of the chain, or NoResponse

(***************************************************************************)
(* Policy Engine: rules and decision (safety-check.step.ts).               *)
(***************************************************************************)
defaultRules ==
  [autoApproveThreshold |-> "low",
   requireApprovalFor   |-> {"medium", "high"},
   rejectFor            |-> {},
   allowedActions       |-> {"restart", "scale", "clear-cache", "update-config"},
   blockedActions       |-> {"delete-data", "drop-database"}]

\* includes without the toLowerCase on either side
includesCaseSensitive(s, t) == includes(s, t)

\* proposedFix.toLowerCase().includes(blockedAction.toLowerCase())
includesIgnoringCase(s, t) == includes(toLowerCase(s), toLowerCase(t))

\* savedRules || defaultRules; rulesGroup is state group policy-rules
loadPolicyRules(rulesGroup) ==
  IF "default" \in DOMAIN rulesGroup THEN rulesGroup["default"] ELSE defaultRules

\* evaluatePolicy without the sandbox special case
evaluatePolicyNoSandboxRule(rcaResult, rules) ==
  IF \E blockedAction \in rules.blockedActions :
       includesIgnoringCase(rcaResult.proposedFix, blockedAction)
  THEN [action |-> "reject", reason |-> "blocked"]
  ELSE IF rcaResult.riskLevel = "low" /\ rules.autoApproveThreshold = "low"
  THEN [action |-> "auto-approve", reason |-> "low-risk"]
  ELSE IF rcaResult.riskLevel \in rules.requireApprovalFor
  THEN [action |-> "require-approval", reason |-> "risk-level"]
  ELSE [action |-> "require-approval", reason |-> "default"]

evaluatePolicy(rcaResult, rules) ==
  IF rcaResult.alertType = "sandbox_disk_full"
  THEN [action |-> "require-approval", reason |-> "sandbox"]
  ELSE IF \E blockedAction \in rules.blockedActions :
            includesIgnoringCase(rcaResult.proposedFix, blockedAction)
  THEN [action |-> "reject", reason |-> "blocked"]
  ELSE IF rcaResult.riskLevel = "low" /\ rules.autoApproveThreshold = "low"
  THEN [action |-> "auto-approve", reason |-> "low-risk"]
  ELSE IF rcaResult.riskLevel \in rules.requireApprovalFor
  THEN [action |-> "require-approval", reason |-> "risk-level"]
  ELSE [action |-> "require-approval", reason |-> "default"]

NoDecision == [action |-> "none", reason |-> "none"]

(***************************************************************************)
(* Authentication and authorization middleware (auth.middleware.ts).       *)
(* A request is [authorization, xApiKey, apiKey]: the Authorization        *)
(* header, the X-API-Key header and the apiKey query parameter; "" stands  *)
(* for an absent header or parameter (absent and empty are both falsy).    *)
(***************************************************************************)
AdminKey == "sk-sentinal-admin-demo-key-12345"
OperatorKey == "sk-sentinal-operator-demo-key-67890"
ViewerKey == "sk-sentinal-viewer-demo-key-11111"

API_KEYS ==
  (AdminKey :> [role |-> "admin", name |-> "Demo Admin"]) @@
  (OperatorKey :> [role |-> "operator", name |-> "Demo Operator"]) @@
  (ViewerKey :> [role |-> "viewer", name |-> "Demo Viewer"])

extractApiKey(req) ==
  IF startsWith(req.authorization, "Bearer ")
  THEN SubSeq(req.authorization, 8, Len(req.authorization))
  ELSE IF req.xApiKey # "" THEN req.xApiKey
  ELSE IF req.apiKey # "" THEN req.apiKey
  ELSE ""

\* the set of configurations found for the key: empty when the key is unknown
\* (no demo key carries an expiresAt)
validateApiKey(apiKey) ==
  IF apiKey \in DOMAIN API_KEYS THEN {API_KEYS[apiKey]} ELSE {}

rolePriority == ("viewer" :> 1) @@ ("operator" :> 2) @@ ("admin" :> 3)

\* hasPermission with a strict comparison of the priorities
hasPermissionStrict(userRole, requiredRole) ==
  rolePriority[userRole] > rolePriority[requiredRole]

hasPermission(userRole, requiredRole) ==
  rolePriority[userRole] >= rolePriority[requiredRole]

NoUser == [role |-> "none", name |-> "none"]

\* authMiddleware: either answers 401 or attaches req.user and calls next
authMiddleware(req) ==
  LET apiKey == extractApiKey(req) IN
  IF apiKey = ""
  THEN [next |-> FALSE, status |-> 401, user |-> NoUser]
  ELSE IF validateApiKey(apiKey) = {}
  THEN [next |-> FALSE, status |-> 401, user |-> NoUser]
  ELSE LET userConfig == CHOOSE c \in validateApiKey(apiKey) : TRUE IN
       [next |-> TRUE, status |-> 0,
        user |-> [role |-> userConfig.role, name |-> userConfig.name]]

\* requireRole(requiredRole): answers 500 without a user, 403 on a role that
\* ranks too low, calls next otherwise
requireRole(user, requiredRole) ==
  IF user = NoUser
  THEN [next |-> FALSE, status |-> 500, user |-> user]
  ELSE IF ~hasPermission(user.role, requiredRole)
  THEN [next |-> FALSE, status |-> 403, user |-> user]
  ELSE [next |-> TRUE, status |-> 0, user |-> user]

\* the chain [authMiddleware, requireRole(requiredRole)] in front of a handler
protectWith(req, requiredRole) ==
  LET a == authMiddleware(req) IN
  IF ~a.next THEN a ELSE requireRole(a.user, requiredRole)

(***************************************************************************)
(* Infrastructure simulator (infrastructure-simulator.ts).                 *)
(***************************************************************************)
NoScenario == "none"       \* scenarioActive = null

baselineMetrics ==
  [memory     |-> [used |-> 4096, total |-> 16384, percentage |-> 25],
   cpu        |-> [usage |-> 15],
   disk       |-> [used |-> 50, total |-> 500, percentage |-> 10],
   containers |-> << [name |-> "web-server", status |-> "running", restartCount |-> 0],
                     [name |-> "api-server", status |-> "running", restartCount |-> 0],
                     [name |-> "worker-1", status |-> "running", restartCount |-> 0],
                     [name |-> "redis-cache", status |-> "running", restartCount |-> 0] >>,
   network    |-> [latency |-> 45]]

applyScenario(metrics, scenario) ==
  CASE scenario = "high_memory" ->
         [metrics EXCEPT !.memory = [used |-> 13107, total |-> 16384, percentage |-> 80]]
    [] scenario = "container_down" ->
         [metrics EXCEPT !.containers =
            [k \in DOMAIN metrics.containers |->
               IF metrics.containers[k].name = "api-server"
               THEN [metrics.containers[k] EXCEPT !.status = "crashed", !.restartCount = 3]
               ELSE metrics.containers[k]]]
    [] scenario = "disk_full" ->
         [metrics EXCEPT !.disk = [used |-> 480, total |-> 500, percentage |-> 96]]
    [] scenario = "network_latency" ->
         [metrics EXCEPT !.network = [latency |-> 350]]
    [] scenario = "cpu_spike" ->
         [metrics EXCEPT !.cpu = [usage |-> 95]]
    [] scenario = "sandbox_disk_full" ->
         [metrics EXCEPT !.disk = [used |-> 110, total |-> 100, percentage |-> 110]]
    [] OTHER -> metrics

collectMetrics(scenario) ==
  IF scenario # NoScenario THEN applyScenario(baselineMetrics, scenario)
  ELSE baselineMetrics

healthStatus(unhealthy) == IF unhealthy THEN "unhealthy" ELSE "healthy"

performHealthChecks(metrics) ==
  << [resource |-> "system-memory", metric |-> "memory_usage_percent",
      status |-> healthStatus(metrics.memory.percentage >= 60),
      value |-> metrics.memory.percentage, threshold |-> 80],
     [resource |-> "system-cpu", metric |-> "cpu_usage_percent",
      status |-> healthStatus(metrics.cpu.usage >= 80),
      value |-> metrics.cpu.usage, threshold |-> 80],
     [resource |-> "system-disk", metric |-> "disk_usage_percent",
      status |-> healthStatus(metrics.disk.percentage >= 95),
      value |-> metrics.disk.percentage, threshold |-> 95] >>
  \o [k \in DOMAIN metrics.containers |->
       [resource |-> "container-" \o metrics.containers[k].name,
        metric |-> "container_status",
        status |-> healthStatus(metrics.containers[k].status # "running"),
        value |-> IF metrics.containers[k].status = "running" THEN 1 ELSE 0,
        threshold |-> 1]]
  \o << [resource |-> "network", metric |-> "network_latency_ms",
         status |-> healthStatus(metrics.network.latency > 200),
         value |-> metrics.network.latency, threshold |-> 200] >>

\* createAlert without the generated id, the timestamp and the log lines
createAlert(check) ==
  LET typeAndSeverity ==
        CASE check.metric = "memory_usage_percent" ->
               <<"high_memory", IF check.value > 92 THEN "critical" ELSE "high">>
          [] check.metric = "cpu_usage_percent" -> <<"cpu_spike", "high">>
          [] check.metric = "disk_usage_percent" ->
               IF check.resource = "sandbox-disk"
               THEN <<"sandbox_disk_full", "high">>
               ELSE <<"disk_full", "critical">>
          [] check.metric = "container_status" -> <<"container_down", "critical">>
          [] check.metric = "network_latency_ms" -> <<"network_latency", "medium">>
  IN [alertType |-> typeAndSeverity[1], severity |-> typeAndSeverity[2],
      metric |-> check.metric, currentValue |-> check.value,
      threshold |-> check.threshold, affectedResource |-> check.resource]

isUnhealthy(check) == check.status = "unhealthy"

detectAlerts(healthChecks) ==
  LET unhealthy == SelectSeq(healthChecks, isUnhealthy)
  IN [k \in DOMAIN unhealthy |-> createAlert(unhealthy[k])]

\* collectMetrics -> performHealthChecks -> detectAlerts on the simulator
simulatorAlerts(scenario) ==
  detectAlerts(performHealthChecks(collectMetrics(scenario)))

(***************************************************************************)
(* The pipeline: state store groups, incident stream, topics.              *)
(***************************************************************************)
VARIABLES
  scenarioActive,      \* InfrastructureSimulator.scenarioActive
  nextId,              \* number of the next alert id to be generated
  sandboxOver,         \* the sandbox directory measures >= the threshold
  cleanupRuns,         \* runs of SandboxMonitor.executeCleanup so far
  alerts,              \* state group alerts
  stream,              \* incident stream, group incidents
  rcaResults,          \* state group rca-results
  policyRules,         \* state group policy-rules
  policyDecisions,     \* state group policy-decisions
  policyRejections,    \* state group policy-rejections
  approvalPending,     \* state group approval-pending
  executionStatus,     \* state group execution-status
  rollbackSnapshots,   \* state group rollback-snapshots
  rollbackHistory,     \* state group rollback-history, in order of writing
  verificationResults, \* state group verification-results
  incidents,           \* state group incidents
  inbox,               \* bag of published events not yet handled by their subscriber
  published,           \* bag of all events ever published
  lastResponse,        \* the response to the latest HTTP request
  lastRollback,        \* outcome of the latest executeRollback call
  fixRuns              \* per incident: runs of the Execute-Fix handler, and how many threw

(***************************************************************************)
(* The services: sandbox directory and the runs of executeCleanup.         *)
(***************************************************************************)
VARIABLES
  sandboxFiles,        \* entries of logs/, temp/, cache/ and data/ that exist
  sandboxBefore,       \* the entries that existed before the first run started
  cleanupPc,           \* per run of executeCleanup: the file-system call it is at
  cleanupListing,      \* per run: the entries its current loop goes through
  cleanupIdx,          \* per run: position in cleanupListing
  cleanupResult        \* per run: what it returned, and the phases it skipped

(***************************************************************************)
(* The services: one measurement of the sandbox against the threshold.     *)
(***************************************************************************)
VARIABLES
  sandboxHalfMB,       \* size of the sandbox directory, in units of 512 KB
  monitoringScenario,  \* what the primary metrics source reports
  thresholdChecks      \* isOverThreshold, verifyCleanup and the scheduler on it

(***************************************************************************)
(* The services: State Cache (state-cache.ts) over the state store.        *)
(***************************************************************************)
VARIABLES
  cache,               \* StateCache.cache: cacheKey -> {data, expiresAt}
  accessOrder,         \* StateCache.accessOrder
  store,               \* the underlying state store, per key (Null when absent)
  now,                 \* Date.now()
  cacheConfig,         \* the CacheConfig the calls pass: ttl, refreshOnAccess, maxSize
  lastGet,             \* outcome of the latest StateCache.get
  cacheOps,            \* calls of the cache and writes of the store so far
  cacheAccess,         \* per key: the operation that last set it or hit it
  cacheInserted,       \* the keys inserted so far, each at its first insertion
  cachePure            \* so far only first insertions and get hits touched the cache

(***************************************************************************)
(* The middleware: rateLimit (part_008) and its store.                     *)
(***************************************************************************)
VARIABLES
  rateLimitStore,      \* identifier -> {count, resetAt}
  limNow,              \* Date.now(), in ms
  limConfig,           \* maxRequests and windowMs of the rateLimit(...) in use
  limResp,             \* what the middleware returned for the latest request
  limLog               \* every request so far: identifier, time, outcome

(***************************************************************************)
(* The typed errors (sentinal-errors.ts).                                  *)
(***************************************************************************)
VARIABLES
  errInput,            \* the class constructed, or the value thrown, and its context
  errThrown,           \* the value after construction
  errChecked           \* what isRecoverableError returned for it

(***************************************************************************)
(* The middleware chains in front of the API handlers.                     *)
(***************************************************************************)
VARIABLES
  mwInput,             \* the chain, the request, what the handler does, NODE_ENV
  mwResp               \* the response the outermost middleware returned

(***************************************************************************)
(* The two listings of the pending approvals.                              *)
(***************************************************************************)
VARIABLES
  lstGroup,            \* state group approval-pending, in the order getGroup returns it
  lstResult            \* the bodies the two listing handlers returned

(***************************************************************************)
(* The infrastructure simulator as an object of its own.                   *)
(***************************************************************************)
VARIABLES
  simulator,           \* InfrastructureSimulator: scenarioActive, scenarioStartTime
  simCalls,            \* the triggerScenario and clearScenario calls made so far
  simSeen              \* what the last collectMetrics, performHealthChecks, detectAlerts returned

(***************************************************************************)
(* One fix.approved event going through the Execute-Fix handler, statement by statement. *)
(***************************************************************************)
VARIABLES
  xfEvent,             \* the fix.approved event delivered: incidentId, alertType, attempt
  xfPc,                \* position of the handler in its body
  xfState,             \* state groups execution-status and rollback-snapshots, and when the snapshot was written
  xfResult,            \* executionResult and the outcome of the rollback call
  xfTrace,             \* what the current attempt has done so far, in order
  xfPublished          \* fix.executed events emitted

(***************************************************************************)
(* Approval requests for one incident that are in flight at the same time. *)
(***************************************************************************)
VARIABLES
  rcRequests,          \* per request: endpoint, action, position in the handler
  rcPending,           \* state group approval-pending
  rcEvents             \* decision events emitted, in order

(***************************************************************************)
(* The Policy Engine handler statement by statement, and an approval request that arrives meanwhile. *)
(***************************************************************************)
VARIABLES
  poRca,               \* the RCA result of the rca.completed event
  poPc,                \* position of the handler in its body
  poPublished,         \* events the handler has emitted
  poPending,           \* state group approval-pending
  poAnswer             \* the answer to an approval request for the incident

(***************************************************************************)
(* One executeRollback call, step by step.                                 *)
(***************************************************************************)
VARIABLES
  rbSnapshot,          \* what state.get('rollback-snapshots', incidentId) returns
  rbPc,                \* position of executeRollback in its body
  rbIndex,             \* i of the for loop over procedure.steps
  rbErrors,            \* errors: the steps that failed, in the order pushed
  rbTrace,             \* steps attempted and the verification, in the order they ran
  rbOutcome            \* what the call returned or raised

(***************************************************************************)
(* The PrometheusClient's reachability probe and its callers.              *)
(***************************************************************************)
VARIABLES
  promEnabled,         \* PrometheusClient.enabled: null, true or false
  promCheck,           \* connectionCheckPromise: none, pending, or settled with a value
  promProbes,          \* fetches of /-/healthy issued
  promCallers          \* per caller: position and the value checkConnection gave it

(***************************************************************************)
(* A State Cache get and a write-through set of one key in flight.         *)
(***************************************************************************)
VARIABLES
  crGet,               \* the get: position, whether it missed, and what state.get gave it
  crSet                \* the set: position and the value it writes

(***************************************************************************)
(* One run of the InfrastructureMonitor handler, await by await.           *)
(***************************************************************************)
VARIABLES
  monPc,               \* the await the handler is at
  monAlerts,           \* the alerts the primary metrics source gives this cycle
  monIdx,              \* position of the for loop in monAlerts
  monStored,           \* ids written to state group alerts
  monStreamed,         \* ids written to the incident stream
  monEmitted,          \* ids published on alert.detected, in order
  monHistory,          \* monitoring-history summaries written
  monSandbox,          \* the sandbox measurement: unmeasured, failed, under or over
  monFailures,         \* the awaits that rejected
  monOutcome           \* running, returned or threw

(***************************************************************************)
(* One run of the SendSlackNotification handler, await by await.           *)
(***************************************************************************)
VARIABLES
  snEvent,             \* the approval.required event and whether SLACK_WEBHOOK_URL is set
  snPc,                \* the await the handler is at
  snSendError,         \* none, swallowed (inside the sender) or raised (to the handler)
  snRecord,            \* state group slack-notifications, the incident's record
  snPending,           \* state group approval-pending, the incident's record
  snOutcome            \* running, returned or threw

idOf(n) == "alert-" \o ToString(n)
IncidentIds == {idOf(n) : n \in 1..MaxIncidents}

EmptyGroup == <<>>
\* state.set(group, key, value)
Put(group, key, value) ==
  [k \in DOMAIN group \cup {key} |-> IF k = key THEN value ELSE group[k]]
\* state.get(group, key) !== null
Has(group, key) == key \in DOMAIN group

\* topics a step of the pipeline subscribes to
SubscribedTopics == {"alert.detected", "rca.completed", "fix.approved", "fix.executed"}

emitInbox(box, messages) ==
  box (+) SetToBag({m \in messages : m.topic \in SubscribedTopics})
emitPublished(pub, messages) == pub (+) SetToBag(messages)

PublishedOn(topic, incidentId) ==
  {m \in BagToSet(published) : m.topic = topic /\ m.incidentId = incidentId}

NoResponse == [endpoint |-> "none", status |-> 0, kind |-> "none"]
respond(endpoint, status, kind) ==
  [endpoint |-> endpoint, status |-> status, kind |-> kind]

NoRollback == [incidentId |-> "none", threw |-> FALSE, stepsRun |-> <<>>,
               wrote |-> FALSE]

\* requests the pipeline is driven with: the key travels as the apiKey query
\* parameter, as on the chat buttons, or is absent
PipelineRequests ==
  {[authorization |-> "", xApiKey |-> "", apiKey |-> k] :
     k \in {"", AdminKey, OperatorKey, ViewerKey}}

\* inputs of the analysis stage that the pipeline is driven with
PipelineRisks == {"low", "high"}
PipelineFixes == {"Restart the api-server container", "Run DELETE-DATA on the volume"}
PipelineScenarios == {"high_memory", "sandbox_disk_full"}

pipeVars == <<scenarioActive, nextId, sandboxOver, cleanupRuns, alerts, stream,
              rcaResults, policyRules, policyDecisions, policyRejections,
              approvalPending, executionStatus, rollbackSnapshots, rollbackHistory,
              verificationResults, incidents, inbox, published, lastResponse,
              lastRollback, fixRuns>>
polVars == <<polRca, polRules, polDecision, polEmitted>>
authVars == <<authReq, authRequired, authResp>>
fsVars == <<sandboxFiles, sandboxBefore, cleanupPc, cleanupListing, cleanupIdx,
           cleanupResult>>
thVars == <<sandboxHalfMB, monitoringScenario, thresholdChecks>>
cacheVars == <<cache, accessOrder, store, now, cacheConfig, lastGet, cacheOps,
              cacheAccess, cacheInserted, cachePure>>
limVars == <<rateLimitStore, limNow, limConfig, limResp, limLog>>
errVars == <<errInput, errThrown, errChecked>>
mwVars == <<mwInput, mwResp>>
lstVars == <<lstGroup, lstResult>>
simVars == <<simulator, simCalls, simSeen>>
xfVars == <<xfEvent, xfPc, xfState, xfResult, xfTrace, xfPublished>>
raceVars == <<rcRequests, rcPending, rcEvents>>
poVars == <<poRca, poPc, poPublished, poPending, poAnswer>>
rbVars == <<rbSnapshot, rbPc, rbIndex, rbErrors, rbTrace, rbOutcome>>
promVars == <<promEnabled, promCheck, promProbes, promCallers>>
crVars == <<crGet, crSet>>
monVars == <<monPc, monAlerts, monIdx, monStored, monStreamed, monEmitted, monHistory, monSandbox, monFailures, monOutcome>>
snVars == <<snEvent, snPc, snSendError, snRecord, snPending, snOutcome>>
svcVars == <<fsVars, thVars, cacheVars, limVars, errVars,
            mwVars,
            lstVars,
            simVars,
            xfVars,
            raceVars,
            poVars,
            rbVars,
            promVars,
            crVars,
            monVars,
            snVars>>
vars == <<pipeVars, polVars, authVars, svcVars>>

\* the pipeline leaves the variables of the stand-alone evaluations alone
Idle == UNCHANGED <<polVars, authVars, svcVars>>

(***************************************************************************)
(* Alert sources.                                                          *)
(***************************************************************************)
alertEvent(id, alert) ==
  [topic |-> "alert.detected", incidentId |-> id,
   alertType |-> alert.alertType, severity |-> alert.severity]

alertRecord(id, alert) ==
  [id |-> id, alertType |-> alert.alertType, severity |-> alert.severity,
   metric |-> alert.metric, currentValue |-> alert.currentValue,
   threshold |-> alert.threshold, affectedResource |-> alert.affectedResource]

\* the detection record written with a terminal status
detectedStreamRecordAsFailed(id, alert) ==
  [id |-> id, alertType |-> alert.alertType, severity |-> alert.severity,
   status |-> "failed",
   timestamps |-> [detected |-> "alert.timestamp"],
   metadata |-> [metric |-> alert.metric, threshold |-> alert.threshold]]

\* the stream record written at detection (monitor.step.ts)
detectedStreamRecord(id, alert) ==
  [id |-> id, alertType |-> alert.alertType, severity |-> alert.severity,
   status |-> "detected",
   timestamps |-> [detected |-> "alert.timestamp"],
   metadata |-> [metric |-> alert.metric, threshold |-> alert.threshold]]

\* POST /trigger-alert (TriggerAlert handler)
TriggerAlert(scenario) ==
  /\ nextId <= MaxIncidents
  /\ scenarioActive' = scenario
  /\ LET found == simulatorAlerts(scenario) IN
     IF Len(found) = 0
     THEN /\ lastResponse' = respond("trigger-alert", 400, "no-alert")
          /\ UNCHANGED <<nextId, alerts, inbox, published>>
     ELSE LET alert == found[1]
              id == idOf(nextId) IN
          /\ alerts' = Put(alerts, id, alertRecord(id, alert))
          /\ inbox' = emitInbox(inbox, {alertEvent(id, alert)})
          /\ published' = emitPublished(published, {alertEvent(id, alert)})
          /\ nextId' = nextId + 1
          /\ lastResponse' = respond("trigger-alert", 200, alert.alertType)
  /\ UNCHANGED <<sandboxOver, cleanupRuns, stream, rcaResults, policyRules,
                 policyDecisions, policyRejections, approvalPending,
                 executionStatus, rollbackSnapshots, rollbackHistory,
                 verificationResults, incidents, lastRollback, fixRuns>>

sandboxAlert ==
  [alertType |-> "sandbox_disk_full", severity |-> "high",
   metric |-> "sandbox_disk_usage_mb", currentValue |-> 100, threshold |-> 100,
   affectedResource |-> "sandbox-disk"]

\* InfrastructureMonitor handler with the simulator as monitoring source:
\* the alerts of the health checks, then the sandbox check
MonitorCycle ==
  LET found == simulatorAlerts(scenarioActive)
      all == IF sandboxOver THEN Append(found, sandboxAlert) ELSE found
      ids == [k \in DOMAIN all |-> idOf(nextId + k - 1)]
      events == {alertEvent(ids[k], all[k]) : k \in DOMAIN all}
  IN
  /\ nextId + Len(all) - 1 <= MaxIncidents
  /\ alerts' = [id \in DOMAIN alerts \cup {ids[k] : k \in DOMAIN all} |->
                  IF \E k \in DOMAIN all : ids[k] = id
                  THEN LET k == CHOOSE k \in DOMAIN all : ids[k] = id
                       IN alertRecord(id, all[k])
                  ELSE alerts[id]]
  /\ stream' = [id \in DOMAIN stream \cup {ids[k] : k \in DOMAIN all} |->
                  IF \E k \in DOMAIN all : ids[k] = id
                  THEN LET k == CHOOSE k \in DOMAIN all : ids[k] = id
                       IN detectedStreamRecord(id, all[k])
                  ELSE stream[id]]
  /\ inbox' = emitInbox(inbox, events)
  /\ published' = emitPublished(published, events)
  /\ nextId' = nextId + Len(all)
  /\ UNCHANGED <<scenarioActive, sandboxOver, cleanupRuns, rcaResults, policyRules,
                 policyDecisions, policyRejections, approvalPending,
                 executionStatus, rollbackSnapshots, rollbackHistory,
                 verificationResults, incidents, lastResponse, lastRollback, fixRuns>>

\* files are written into the sandbox directory until it reaches the threshold
SandboxFills ==
  /\ ~sandboxOver
  /\ sandboxOver' = TRUE
  /\ UNCHANGED <<scenarioActive, nextId, cleanupRuns, alerts, stream, rcaResults,
                 policyRules, policyDecisions, policyRejections, approvalPending,
                 executionStatus, rollbackSnapshots, rollbackHistory,
                 verificationResults, incidents, inbox, published, lastResponse,
                 lastRollback, fixRuns>>

(***************************************************************************)
(* Root-cause-analysis stage: consumes alert.detected, publishes           *)
(* rca.completed and persists the result under rca-results.  The two       *)
(* writes are separate (the store has no cross-key transaction): the       *)
(* result is persisted with the publication or by a later step.            *)
(***************************************************************************)
rcaOf(m) ==
  [incidentId |-> m.incidentId, riskLevel |-> m.riskLevel,
   proposedFix |-> m.proposedFix, alertType |-> m.alertType]

RCAStage(m, riskLevel, proposedFix, persistNow) ==
  /\ BagIn(m, inbox)
  /\ m.topic = "alert.detected"
  /\ LET event == [topic |-> "rca.completed", incidentId |-> m.incidentId,
                   riskLevel |-> riskLevel, proposedFix |-> proposedFix,
                   alertType |-> m.alertType] IN
     /\ inbox' = emitInbox(inbox (-) SetToBag({m}), {event})
     /\ published' = emitPublished(published, {event})
     /\ rcaResults' = IF persistNow THEN Put(rcaResults, m.incidentId, rcaOf(event))
                      ELSE rcaResults
  /\ UNCHANGED <<scenarioActive, nextId, sandboxOver, cleanupRuns, alerts, stream,
                 policyRules, policyDecisions, policyRejections, approvalPending,
                 executionStatus, rollbackSnapshots, rollbackHistory,
                 verificationResults, incidents, lastResponse, lastRollback, fixRuns>>

RCAPersist(m) ==
  /\ BagIn(m, published)
  /\ m.topic = "rca.completed"
  /\ ~Has(rcaResults, m.incidentId)
  /\ rcaResults' = Put(rcaResults, m.incidentId, rcaOf(m))
  /\ UNCHANGED <<scenarioActive, nextId, sandboxOver, cleanupRuns, alerts, stream,
                 policyRules, policyDecisions, policyRejections, approvalPending,
                 executionStatus, rollbackSnapshots, rollbackHistory,
                 verificationResults, incidents, inbox, published, lastResponse,
                 lastRollback, fixRuns>>

(***************************************************************************)
(* Policy Engine handler (safety-check.step.ts).                           *)
(***************************************************************************)
\* the events the handler publishes for a decision
policyEmits(rcaResult, decision) ==
  IF decision.action = "auto-approve"
  THEN {[topic |-> "fix.approved", incidentId |-> rcaResult.incidentId,
         approvalType |-> "automatic", approvedBy |-> "policy-engine",
         rcaResult |-> rcaResult, attempt |-> 0]}
  ELSE IF decision.action = "require-approval"
  THEN {[topic |-> "approval.required", incidentId |-> rcaResult.incidentId,
         riskLevel |-> rcaResult.riskLevel, reason |-> decision.reason]}
  ELSE {}

\* policyPending storing the PendingApproval unless the fix is auto-approved
policyPendingUnlessApproved(pending, rcaResult, decision) ==
  IF decision.action # "auto-approve"
  THEN Put(pending, rcaResult.incidentId,
           [incidentId |-> rcaResult.incidentId, status |-> "pending",
            riskLevel |-> rcaResult.riskLevel, proposedFix |-> rcaResult.proposedFix])
  ELSE pending

\* state group approval-pending after the handler
policyPending(pending, rcaResult, decision) ==
  IF decision.action = "require-approval"
  THEN Put(pending, rcaResult.incidentId,
           [incidentId |-> rcaResult.incidentId, status |-> "pending",
            riskLevel |-> rcaResult.riskLevel, proposedFix |-> rcaResult.proposedFix])
  ELSE pending

\* state group policy-rejections after the handler
policyRejected(rejections, rcaResult, decision) ==
  IF decision.action \notin {"auto-approve", "require-approval"}
  THEN Put(rejections, rcaResult.incidentId,
           [incidentId |-> rcaResult.incidentId, reason |-> decision.reason])
  ELSE rejections

PolicyEngine(m) ==
  /\ BagIn(m, inbox)
  /\ m.topic = "rca.completed"
  /\ LET rcaResult == rcaOf(m)
         rules == loadPolicyRules(policyRules)
         decision == evaluatePolicy(rcaResult, rules) IN
     /\ policyDecisions' = Put(policyDecisions, m.incidentId,
                               [incidentId |-> m.incidentId,
                                decision |-> decision.action,
                                reason |-> decision.reason,
                                riskLevel |-> rcaResult.riskLevel,
                                proposedFix |-> rcaResult.proposedFix])
     /\ inbox' = emitInbox(inbox (-) SetToBag({m}), policyEmits(rcaResult, decision))
     /\ published' = emitPublished(published, policyEmits(rcaResult, decision))
     /\ approvalPending' = policyPending(approvalPending, rcaResult, decision)
     /\ policyRejections' = policyRejected(policyRejections, rcaResult, decision)
  /\ UNCHANGED <<scenarioActive, nextId, sandboxOver, cleanupRuns, alerts, stream,
                 rcaResults, policyRules, executionStatus, rollbackSnapshots,
                 rollbackHistory, verificationResults, incidents, lastResponse,
                 lastRollback, fixRuns>>

(***************************************************************************)
(* Sandbox cleanup and the interactive actions (sandbox-monitor.ts,        *)
(* slack-interactive.ts).                                                  *)
(***************************************************************************)
\* whether the sandbox can still measure >= the threshold after a cleanup
\* (data/ and the newest log files are kept)
cleanupAfter(over) == IF over THEN BOOLEAN ELSE {FALSE}

\* SlackInteractiveService.executeAction: result and whether executeCleanup ran
executeAction(action, containerName, cleanupOk, restartOk) ==
  CASE action = "clear_sandbox" ->
         [success |-> cleanupOk, ranCleanup |-> TRUE]
    [] action = "restart_container" ->
         IF containerName = ""
         THEN [success |-> FALSE, ranCleanup |-> FALSE]
         ELSE [success |-> restartOk, ranCleanup |-> FALSE]
    [] action = "both" ->
         IF ~cleanupOk
         THEN [success |-> FALSE, ranCleanup |-> TRUE]
         ELSE [success |-> restartOk, ranCleanup |-> TRUE]
    [] OTHER -> [success |-> FALSE, ranCleanup |-> FALSE]

\* outcomes of the environment that an interactive action depends on
ActionOutcomes(action, execute, over) ==
  IF action = "approve" /\ execute \in {"clear_sandbox", "both"}
  THEN {[cleanupOk |-> c, overAfter |-> o, restartOk |-> r] :
          c \in BOOLEAN, o \in cleanupAfter(over),
          r \in IF execute = "both" THEN BOOLEAN ELSE {TRUE}}
  ELSE IF action = "approve" /\ execute = "restart_container"
  THEN {[cleanupOk |-> TRUE, overAfter |-> over, restartOk |-> r] : r \in BOOLEAN}
  ELSE {[cleanupOk |-> TRUE, overAfter |-> over, restartOk |-> TRUE]}

(***************************************************************************)
(* Approval workflow: GET /manual-approval (manual-approval.step.ts).      *)
(***************************************************************************)
\* manualApprovalGetCheck without the admin check in front of the cleanup
manualApprovalGetCheckAnyRole(pending, rca, incidentId, action, execute, user) ==
  IF ~Has(pending, incidentId) THEN [status |-> 404, kind |-> "no-pending-approval"]
  ELSE IF pending[incidentId].status # "pending"
  THEN [status |-> 400, kind |-> "already-processed"]
  ELSE IF ~Has(rca, incidentId) THEN [status |-> 404, kind |-> "rca-not-found"]
  ELSE [status |-> 200, kind |-> "processed"]

\* the checks in front of the state change, in the order of the handler
manualApprovalGetCheck(pending, rca, incidentId, action, execute, user) ==
  IF ~Has(pending, incidentId) THEN [status |-> 404, kind |-> "no-pending-approval"]
  ELSE IF pending[incidentId].status # "pending"
  THEN [status |-> 400, kind |-> "already-processed"]
  ELSE IF ~Has(rca, incidentId) THEN [status |-> 404, kind |-> "rca-not-found"]
  ELSE IF /\ action = "approve" /\ execute # ""
          /\ execute \in {"clear_sandbox", "both"}
          /\ user.role # "admin"
  THEN [status |-> 403, kind |-> "admin-required"]
  ELSE [status |-> 200, kind |-> "processed"]

resultName(ran, success) ==
  IF ~ran THEN "none" ELSE IF success THEN "success" ELSE "failure"

ManualApprovalGet(incidentId, action, execute, containerName, req, outcome) ==
  LET chain == protectWith(req, "operator") IN
  IF ~chain.next
  THEN /\ lastResponse' = respond("manual-approval-get", chain.status, "middleware")
       /\ UNCHANGED <<scenarioActive, nextId, sandboxOver, cleanupRuns, alerts,
                      stream, rcaResults, policyRules, policyDecisions,
                      policyRejections, approvalPending, executionStatus,
                      rollbackSnapshots, rollbackHistory, verificationResults,
                      incidents, inbox, published, lastRollback, fixRuns>>
  ELSE
  LET check == manualApprovalGetCheck(approvalPending, rcaResults, incidentId,
                                      action, execute, chain.user) IN
  IF check.status # 200
  THEN /\ lastResponse' = respond("manual-approval-get", check.status, check.kind)
       /\ UNCHANGED <<scenarioActive, nextId, sandboxOver, cleanupRuns, alerts,
                      stream, rcaResults, policyRules, policyDecisions,
                      policyRejections, approvalPending, executionStatus,
                      rollbackSnapshots, rollbackHistory, verificationResults,
                      incidents, inbox, published, lastRollback, fixRuns>>
  ELSE
  LET executes == action = "approve" /\ execute # ""
      result == executeAction(execute, containerName, outcome.cleanupOk,
                              outcome.restartOk)
      ranCleanup == executes /\ result.ranCleanup
      executionResult == resultName(executes, result.success)
      actionType == IF execute # "" THEN execute ELSE "none"
      event == IF action = "approve"
               THEN [topic |-> "fix.approved", incidentId |-> incidentId,
                     approvalType |-> "interactive",
                     approvedBy |-> "slack-interactive",
                     rcaResult |-> rcaResults[incidentId], attempt |-> 0,
                     executionResult |-> executionResult, actionType |-> actionType]
               ELSE [topic |-> "fix.rejected", incidentId |-> incidentId,
                     rejectedBy |-> "slack-interactive"]
  IN
  /\ cleanupRuns' = IF ranCleanup THEN cleanupRuns + 1 ELSE cleanupRuns
  /\ sandboxOver' = IF ranCleanup THEN outcome.overAfter ELSE sandboxOver
  /\ approvalPending' =
       Put(approvalPending, incidentId,
           [status |-> IF action = "approve" THEN "approved" ELSE "rejected",
            approver |-> "slack-interactive",
            executionResult |-> executionResult,
            actionType |-> actionType] @@ approvalPending[incidentId])
  /\ inbox' = emitInbox(inbox, {event})
  /\ published' = emitPublished(published, {event})
  /\ lastResponse' = respond("manual-approval-get", 200, action)
  /\ UNCHANGED <<scenarioActive, nextId, alerts, stream, rcaResults, policyRules,
                 policyDecisions, policyRejections, executionStatus,
                 rollbackSnapshots, rollbackHistory, verificationResults,
                 incidents, lastRollback, fixRuns>>

(***************************************************************************)
(* POST /manual-approval (manual-approval.step.ts, handlerPost).           *)
(***************************************************************************)
\* manualApprovalPostCheck without the look at the status
manualApprovalPostCheckAnyStatus(pending, rca, incidentId) ==
  IF ~Has(pending, incidentId) THEN [status |-> 404, kind |-> "no-pending-approval"]
  ELSE IF ~Has(rca, incidentId) THEN [status |-> 404, kind |-> "rca-not-found"]
  ELSE [status |-> 200, kind |-> "processed"]

manualApprovalPostCheck(pending, rca, incidentId) ==
  IF ~Has(pending, incidentId) THEN [status |-> 404, kind |-> "no-pending-approval"]
  ELSE IF pending[incidentId].status # "pending"
  THEN [status |-> 400, kind |-> "already-processed"]
  ELSE IF ~Has(rca, incidentId) THEN [status |-> 404, kind |-> "rca-not-found"]
  ELSE [status |-> 200, kind |-> "processed"]

ManualApprovalPost(incidentId, action, req) ==
  LET chain == protectWith(req, "operator") IN
  IF ~chain.next
  THEN /\ lastResponse' = respond("manual-approval-post", chain.status, "middleware")
       /\ UNCHANGED <<scenarioActive, nextId, sandboxOver, cleanupRuns, alerts,
                      stream, rcaResults, policyRules, policyDecisions,
                      policyRejections, approvalPending, executionStatus,
                      rollbackSnapshots, rollbackHistory, verificationResults,
                      incidents, inbox, published, lastRollback, fixRuns>>
  ELSE
  LET check == manualApprovalPostCheck(approvalPending, rcaResults, incidentId) IN
  IF check.status # 200
  THEN /\ lastResponse' = respond("manual-approval-post", check.status, check.kind)
       /\ UNCHANGED <<scenarioActive, nextId, sandboxOver, cleanupRuns, alerts,
                      stream, rcaResults, policyRules, policyDecisions,
                      policyRejections, approvalPending, executionStatus,
                      rollbackSnapshots, rollbackHistory, verificationResults,
                      incidents, inbox, published, lastRollback, fixRuns>>
  ELSE
  LET event == IF action = "approve"
               THEN [topic |-> "fix.approved", incidentId |-> incidentId,
                     approvalType |-> "manual", approvedBy |-> "manual-api",
                     rcaResult |-> rcaResults[incidentId], attempt |-> 0]
               ELSE [topic |-> "fix.rejected", incidentId |-> incidentId,
                     rejectedBy |-> "manual-api"]
  IN
  /\ approvalPending' =
       Put(approvalPending, incidentId,
           [status |-> IF action = "approve" THEN "approved" ELSE "rejected",
            approver |-> "manual-api"] @@ approvalPending[incidentId])
  /\ inbox' = emitInbox(inbox, {event})
  /\ published' = emitPublished(published, {event})
  /\ lastResponse' = respond("manual-approval-post", 200, action)
  /\ UNCHANGED <<scenarioActive, nextId, sandboxOver, cleanupRuns, alerts, stream,
                 rcaResults, policyRules, policyDecisions, policyRejections,
                 executionStatus, rollbackSnapshots, rollbackHistory,
                 verificationResults, incidents, lastRollback, fixRuns>>

(***************************************************************************)
(* GET /approve and GET /reject (slack-approve.step.ts,                    *)
(* slack-reject.step.ts): no middleware, HTML pages with status 200.       *)
(***************************************************************************)
slackApproveCheck(pending, rca, incidentId) ==
  IF ~Has(pending, incidentId) THEN "not-found"
  ELSE IF pending[incidentId].status # "pending" THEN "already-processed"
  ELSE IF ~Has(rca, incidentId) THEN "rca-not-found"
  ELSE "approved"

SlackApprove(incidentId) ==
  LET page == slackApproveCheck(approvalPending, rcaResults, incidentId) IN
  IF page # "approved"
  THEN /\ lastResponse' = respond("approve", 200, page)
       /\ UNCHANGED <<scenarioActive, nextId, sandboxOver, cleanupRuns, alerts,
                      stream, rcaResults, policyRules, policyDecisions,
                      policyRejections, approvalPending, executionStatus,
                      rollbackSnapshots, rollbackHistory, verificationResults,
                      incidents, inbox, published, lastRollback, fixRuns>>
  ELSE
  LET event == [topic |-> "fix.approved", incidentId |-> incidentId,
                approvalType |-> "slack", approvedBy |-> "slack-button",
                rcaResult |-> rcaResults[incidentId], attempt |-> 0]
  IN
  /\ approvalPending' =
       Put(approvalPending, incidentId,
           [status |-> "approved", approver |-> "slack-button"]
             @@ approvalPending[incidentId])
  /\ inbox' = emitInbox(inbox, {event})
  /\ published' = emitPublished(published, {event})
  /\ lastResponse' = respond("approve", 200, page)
  /\ UNCHANGED <<scenarioActive, nextId, sandboxOver, cleanupRuns, alerts, stream,
                 rcaResults, policyRules, policyDecisions, policyRejections,
                 executionStatus, rollbackSnapshots, rollbackHistory,
                 verificationResults, incidents, lastRollback, fixRuns>>

\* slackRejectCheck without the look at the status
slackRejectCheckAnyStatus(pending, incidentId) ==
  IF ~Has(pending, incidentId) THEN "not-found" ELSE "rejected"

slackRejectCheck(pending, incidentId) ==
  IF ~Has(pending, incidentId) THEN "not-found"
  ELSE IF pending[incidentId].status # "pending" THEN "already-processed"
  ELSE "rejected"

SlackReject(incidentId) ==
  LET page == slackRejectCheck(approvalPending, incidentId) IN
  IF page # "rejected"
  THEN /\ lastResponse' = respond("reject", 200, page)
       /\ UNCHANGED <<scenarioActive, nextId, sandboxOver, cleanupRuns, alerts,
                      stream, rcaResults, policyRules, policyDecisions,
                      policyRejections, approvalPending, executionStatus,
                      rollbackSnapshots, rollbackHistory, verificationResults,
                      incidents, inbox, published, lastRollback, fixRuns>>
  ELSE
  LET event == [topic |-> "fix.rejected", incidentId |-> incidentId,
                rejectedBy |-> "slack-button"]
  IN
  /\ approvalPending' =
       Put(approvalPending, incidentId,
           [status |-> "rejected", approver |-> "slack-button"]
             @@ approvalPending[incidentId])
  /\ inbox' = emitInbox(inbox, {event})
  /\ published' = emitPublished(published, {event})
  /\ lastResponse' = respond("reject", 200, page)
  /\ UNCHANGED <<scenarioActive, nextId, sandboxOver, cleanupRuns, alerts, stream,
                 rcaResults, policyRules, policyDecisions, policyRejections,
                 executionStatus, rollbackSnapshots, rollbackHistory,
                 verificationResults, incidents, lastRollback, fixRuns>>

(***************************************************************************)
(* Rollback Manager (rollback-manager.ts).                                 *)
(***************************************************************************)
rollbackProcedures ==
  ("high_memory" :>
     [steps |-> <<"Restore previous memory limits",
                  "Restart affected processes with original config",
                  "Verify memory usage returned to baseline">>,
      requiresConfirmation |-> FALSE]) @@
  ("container_down" :>
     [steps |-> <<"Restore container to previous state",
                  "Apply original container configuration",
                  "Wait for health checks to pass">>,
      requiresConfirmation |-> TRUE]) @@
  ("disk_full" :>
     [steps |-> <<"Restore deleted files if backed up",
                  "Revert log rotation changes",
                  "Verify disk space allocation">>,
      requiresConfirmation |-> FALSE]) @@
  ("cpu_spike" :>
     [steps |-> <<"Restore CPU throttling settings",
                  "Revert process priority changes",
                  "Monitor CPU usage stabilization">>,
      requiresConfirmation |-> FALSE]) @@
  ("network_latency" :>
     [steps |-> <<"Restore network configuration",
                  "Revert routing table changes",
                  "Verify network latency metrics">>,
      requiresConfirmation |-> TRUE])

StepsPerProcedure == 3
\* which steps of a procedure throw, and whether verifyRollback passes
RollbackOutcomes ==
  {[failing |-> f, verified |-> v] : f \in SUBSET (1..StepsPerProcedure), v \in BOOLEAN}

\* createSnapshot: state group rollback-snapshots afterwards
createSnapshot(snapshots, incidentId, alertType) ==
  Put(snapshots, incidentId, [incidentId |-> incidentId, alertType |-> alertType])

\* executeRollback taking a missing snapshot for a rollback without steps
executeRollbackWithoutSnapshot(snapshots, incidentId, outcome) ==
  IF ~Has(snapshots, incidentId)
     \/ snapshots[incidentId].alertType \notin DOMAIN rollbackProcedures
  THEN [threw |-> FALSE, stepsRun |-> <<>>,
        entries |-> << [incidentId |-> incidentId, success |-> outcome.verified,
                        errors |-> {}, verificationPassed |-> outcome.verified] >>,
        success |-> outcome.verified]
  ELSE LET procedure == rollbackProcedures[snapshots[incidentId].alertType]
           errors == {k \in DOMAIN procedure.steps : k \in outcome.failing}
           success == errors = {} /\ outcome.verified
       IN [threw |-> FALSE, stepsRun |-> procedure.steps,
           entries |-> << [incidentId |-> incidentId, success |-> success,
                           errors |-> errors,
                           verificationPassed |-> outcome.verified] >>,
           success |-> success]

\* executeRollback: threw tells a RollbackError was raised; stepsRun are the
\* steps attempted in order; entries is what was appended to rollback-history
executeRollback(snapshots, incidentId, outcome) ==
  IF ~Has(snapshots, incidentId)
  THEN [threw |-> TRUE, stepsRun |-> <<>>, entries |-> <<>>, success |-> FALSE]
  ELSE IF snapshots[incidentId].alertType \notin DOMAIN rollbackProcedures
  THEN \* procedure is undefined: reading procedure.steps raises, caught and rethrown
       [threw |-> TRUE, stepsRun |-> <<>>, entries |-> <<>>, success |-> FALSE]
  ELSE LET procedure == rollbackProcedures[snapshots[incidentId].alertType]
           errors == {k \in DOMAIN procedure.steps : k \in outcome.failing}
           success == errors = {} /\ outcome.verified
       IN [threw |-> FALSE, stepsRun |-> procedure.steps,
           entries |-> << [incidentId |-> incidentId, success |-> success,
                           errors |-> errors,
                           verificationPassed |-> outcome.verified] >>,
           success |-> success]

isRollbackAvailable(snapshots, incidentId) == Has(snapshots, incidentId)

rollbackRecord(incidentId, r) ==
  [incidentId |-> incidentId, threw |-> r.threw, stepsRun |-> r.stepsRun,
   wrote |-> r.entries # <<>>]

(***************************************************************************)
(* Execute-Fix stage (execute-fix.step.ts) and Fix Executor                *)
(* (fix-executor.ts).                                                      *)
(***************************************************************************)
HandlerRetries == 3     \* config.infrastructure.handler.retries

\* FixApprovedSchema with an enum that lacks the value automatic
FixApprovedSchemaManualOnly(m) == m.approvalType \in {"manual"}

\* input schema of the step: the platform hands over only events that parse
FixApprovedSchema(m) == m.approvalType \in {"automatic", "manual"}

SimulatedFixes == {"high_memory", "container_down", "disk_full",
                   "network_latency", "cpu_spike"}

\* FixExecutor.executeFix: success flag of the result
executeFix(alertType, cleanupOk) ==
  IF alertType \in SimulatedFixes THEN TRUE
  ELSE IF alertType = "sandbox_disk_full" THEN cleanupOk
  ELSE FALSE

\* outcomes of the environment that one run of the handler depends on
FixOutcomes(alertType, over) ==
  IF alertType = "sandbox_disk_full"
  THEN {[cleanupOk |-> c, overAfter |-> o] : c \in BOOLEAN, o \in cleanupAfter(over)}
  ELSE {[cleanupOk |-> TRUE, overAfter |-> over]}

\* retryInbox redelivering after every uncaught error
retryInboxAlways(box, m) ==
  (box (-) SetToBag({m})) (+) SetToBag({[m EXCEPT !.attempt = @ + 1]})

\* the platform's handling of an uncaught error: redeliver while retries remain
retryInbox(box, m) ==
  IF m.attempt < HandlerRetries
  THEN (box (-) SetToBag({m})) (+) SetToBag({[m EXCEPT !.attempt = @ + 1]})
  ELSE box (-) SetToBag({m})

runsOf(incidentId) ==
  IF Has(fixRuns, incidentId) THEN fixRuns[incidentId] ELSE [runs |-> 0, threw |-> 0]

\* outcomes of the rollback steps that one run of the handler depends on
FixRollbackOutcomes(alertType, cleanupOk) ==
  IF ~executeFix(alertType, cleanupOk) /\ alertType \in DOMAIN rollbackProcedures
  THEN RollbackOutcomes
  ELSE {[failing |-> {}, verified |-> TRUE]}

ExecuteFix(m, outcome, rollbackOutcome) ==
  /\ BagIn(m, inbox)
  /\ m.topic = "fix.approved"
  /\ FixApprovedSchema(m)
  /\ LET incidentId == m.incidentId
         alertType == m.rcaResult.alertType
         snapshots == createSnapshot(rollbackSnapshots, incidentId, alertType)
         ranCleanup == alertType = "sandbox_disk_full"
         success == executeFix(alertType, outcome.cleanupOk)
         rollback == executeRollback(snapshots, incidentId, rollbackOutcome)
         event == [topic |-> "fix.executed", incidentId |-> incidentId,
                   alertType |-> alertType, rcaResult |-> m.rcaResult]
     IN
     /\ rollbackSnapshots' = snapshots
     /\ fixRuns' = Put(fixRuns, incidentId,
                       [runs |-> runsOf(incidentId).runs + 1,
                        threw |-> runsOf(incidentId).threw + IF success THEN 0 ELSE 1])
     /\ cleanupRuns' = IF ranCleanup THEN cleanupRuns + 1 ELSE cleanupRuns
     /\ sandboxOver' = IF ranCleanup THEN outcome.overAfter ELSE sandboxOver
     /\ IF success
        THEN /\ scenarioActive' = NoScenario
             /\ executionStatus' = Put(executionStatus, incidentId,
                                       [status |-> "completed"])
             /\ inbox' = emitInbox(inbox (-) SetToBag({m}), {event})
             /\ published' = emitPublished(published, {event})
             /\ UNCHANGED <<rollbackHistory, lastRollback>>
        ELSE /\ executionStatus' =
                  Put(executionStatus, incidentId,
                      [status |-> IF rollback.threw THEN "failed_rollback_failed"
                                  ELSE "failed_with_rollback"])
             /\ rollbackHistory' = rollbackHistory \o rollback.entries
             /\ lastRollback' = rollbackRecord(incidentId, rollback)
             /\ inbox' = retryInbox(inbox, m)
             /\ UNCHANGED <<scenarioActive, published>>
  /\ UNCHANGED <<nextId, alerts, stream, rcaResults, policyRules, policyDecisions,
                 policyRejections, approvalPending, verificationResults, incidents,
                 lastResponse>>

\* an event that does not parse against the input schema is not handed over
ExecuteFixSkipped(m) ==
  /\ BagIn(m, inbox)
  /\ m.topic = "fix.approved"
  /\ ~FixApprovedSchema(m)
  /\ inbox' = inbox (-) SetToBag({m})
  /\ UNCHANGED <<scenarioActive, nextId, sandboxOver, cleanupRuns, alerts, stream,
                 rcaResults, policyRules, policyDecisions, policyRejections,
                 approvalPending, executionStatus, rollbackSnapshots,
                 rollbackHistory, verificationResults, incidents, published,
                 lastResponse, lastRollback, fixRuns>>

(***************************************************************************)
(* Verify-Resolution stage (verify-resolution.step.ts).                    *)
(***************************************************************************)
\* FixExecutor.verifyFix: the resolved flag
verifyFix(alertType, scenario, over) ==
  IF alertType = "sandbox_disk_full"
  THEN ~over
  ELSE LET found == simulatorAlerts(scenario) IN
       ~\E k \in DOMAIN found : found[k].alertType = alertType

resolvedIncident(incidentId, alertType, rcaResult) ==
  [id |-> incidentId, alertType |-> alertType, status |-> "resolved",
   riskLevel |-> rcaResult.riskLevel]

resolvedStreamRecord(incidentId, alertType, rcaResult) ==
  [id |-> incidentId, alertType |-> alertType,
   severity |-> IF rcaResult.riskLevel = "high" THEN "critical" ELSE "high",
   status |-> "resolved", riskLevel |-> rcaResult.riskLevel,
   proposedFix |-> rcaResult.proposedFix,
   approvalStatus |-> "approved", executionProgress |-> 100,
   timestamps |-> [detected |-> "rca.timestamp", resolved |-> "now"]]

VerifyResolution(m) ==
  /\ BagIn(m, inbox)
  /\ m.topic = "fix.executed"
  /\ LET incidentId == m.incidentId
         resolved == verifyFix(m.alertType, scenarioActive, sandboxOver) IN
     /\ verificationResults' = Put(verificationResults, incidentId,
                                   [incidentId |-> incidentId, resolved |-> resolved])
     /\ IF resolved
        THEN /\ incidents' = Put(incidents, incidentId,
                                 resolvedIncident(incidentId, m.alertType, m.rcaResult))
             /\ stream' = Put(stream, incidentId,
                              resolvedStreamRecord(incidentId, m.alertType, m.rcaResult))
        ELSE /\ incidents' = Put(incidents, incidentId,
                                 [id |-> incidentId, alertType |-> m.alertType,
                                  status |-> "partially_resolved"])
             /\ UNCHANGED stream
  /\ inbox' = inbox (-) SetToBag({m})
  /\ UNCHANGED <<scenarioActive, nextId, sandboxOver, cleanupRuns, alerts,
                 rcaResults, policyRules, policyDecisions, policyRejections,
                 approvalPending, executionStatus, rollbackSnapshots,
                 rollbackHistory, published, lastResponse, lastRollback, fixRuns>>

(***************************************************************************)
(* POST /rollback (manual-rollback.step.ts) and direct calls of the        *)
(* Rollback Manager.                                                       *)
(***************************************************************************)
MaxRollbacks == 1      \* rollback-history entries written in one behaviour

ManualRollback(incidentId, outcome) ==
  /\ Len(rollbackHistory) < MaxRollbacks
  /\ IF ~isRollbackAvailable(rollbackSnapshots, incidentId)
     THEN /\ lastResponse' = respond("rollback", 404, "no-snapshot")
          /\ UNCHANGED <<rollbackHistory, lastRollback>>
     ELSE LET r == executeRollback(rollbackSnapshots, incidentId, outcome) IN
          /\ rollbackHistory' = rollbackHistory \o r.entries
          /\ lastRollback' = rollbackRecord(incidentId, r)
          /\ lastResponse' =
               IF r.threw THEN respond("rollback", 500, "rollback-error")
               ELSE IF r.success THEN respond("rollback", 200, "rolled-back")
               ELSE respond("rollback", 500, "rollback-failed")
  /\ UNCHANGED <<scenarioActive, nextId, sandboxOver, cleanupRuns, alerts, stream,
                 rcaResults, policyRules, policyDecisions, policyRejections,
                 approvalPending, executionStatus, rollbackSnapshots,
                 verificationResults, incidents, inbox, published, fixRuns>>

\* rollbackManager.executeRollback(state, incidentId, reason) called on its own
RollbackCall(incidentId, outcome) ==
  /\ Len(rollbackHistory) < MaxRollbacks
  /\ LET r == executeRollback(rollbackSnapshots, incidentId, outcome) IN
     /\ rollbackHistory' = rollbackHistory \o r.entries
     /\ lastRollback' = rollbackRecord(incidentId, r)
  /\ UNCHANGED <<scenarioActive, nextId, sandboxOver, cleanupRuns, alerts, stream,
                 rcaResults, policyRules, policyDecisions, policyRejections,
                 approvalPending, executionStatus, rollbackSnapshots,
                 verificationResults, incidents, inbox, published, lastResponse,
                 fixRuns>>

\* rollbackManager.createSnapshot(state, incidentId, alertType, ...) as the
\* Execute-Fix handler calls it before the fix
SnapshotCall(incidentId, alertType) ==
  /\ rollbackSnapshots' = createSnapshot(rollbackSnapshots, incidentId, alertType)
  /\ UNCHANGED <<scenarioActive, nextId, sandboxOver, cleanupRuns, alerts, stream,
                 rcaResults, policyRules, policyDecisions, policyRejections,
                 approvalPending, executionStatus, rollbackHistory,
                 verificationResults, incidents, inbox, published, lastResponse,
                 lastRollback, fixRuns>>

(***************************************************************************)
(* Specification of the pipeline.                                          *)
(***************************************************************************)
InitPipeline ==
  /\ scenarioActive = NoScenario
  /\ nextId = 1
  /\ sandboxOver = FALSE
  /\ cleanupRuns = 0
  /\ alerts = EmptyGroup
  /\ stream = EmptyGroup
  /\ rcaResults = EmptyGroup
  /\ policyRules = EmptyGroup
  /\ policyDecisions = EmptyGroup
  /\ policyRejections = EmptyGroup
  /\ approvalPending = EmptyGroup
  /\ executionStatus = EmptyGroup
  /\ rollbackSnapshots = EmptyGroup
  /\ rollbackHistory = <<>>
  /\ verificationResults = EmptyGroup
  /\ incidents = EmptyGroup
  /\ inbox = EmptyBag
  /\ published = EmptyBag
  /\ lastResponse = NoResponse
  /\ lastRollback = NoRollback
  /\ fixRuns = EmptyGroup

InitPolicyIdle ==
  /\ polRca = [incidentId |-> "none", riskLevel |-> "low", proposedFix |-> "",
               alertType |-> NoAlertType]
  /\ polRules = EmptyGroup
  /\ polDecision = NoDecision
  /\ polEmitted = {}

InitAuthIdle ==
  /\ authReq = [authorization |-> "", xApiKey |-> "", apiKey |-> ""]
  /\ authRequired = "viewer"
  /\ authResp = [status |-> 0, handled |-> FALSE]

\* no run of executeCleanup is followed call by call
CleanupRuns == {1, 2}
NoListing == <<>>
NoCleanupResult == [returned |-> FALSE, success |-> FALSE, skipped |-> {}]
InitCleanupIdle ==
  /\ sandboxFiles = {}
  /\ sandboxBefore = {}
  /\ cleanupPc = [r \in CleanupRuns |-> "off"]
  /\ cleanupListing = [r \in CleanupRuns |-> NoListing]
  /\ cleanupIdx = [r \in CleanupRuns |-> 1]
  /\ cleanupResult = [r \in CleanupRuns |-> NoCleanupResult]

\* nothing has measured the sandbox
NoChecks == [checked |-> FALSE]
InitThresholdIdle ==
  /\ sandboxHalfMB = 0
  /\ monitoringScenario = NoScenario
  /\ thresholdChecks = NoChecks

\* the State Cache is not used
Null == "null"
NoGet == [threw |-> FALSE, value |-> Null, from |-> "none", expired |-> FALSE]
InitCacheIdle ==
  /\ cache = <<>>
  /\ accessOrder = <<>>
  /\ store = <<>>
  /\ now = 0
  /\ cacheConfig = [ttl |-> 0, refreshOnAccess |-> FALSE, maxSize |-> 0]
  /\ lastGet = NoGet
  /\ cacheOps = 0
  /\ cacheAccess = <<>>
  /\ cacheInserted = <<>>
  /\ cachePure = TRUE

\* no request has gone through rateLimit
NoLimResp == [status |-> 0, passed |-> FALSE, retryAfter |-> -1]
InitLimiterIdle ==
  /\ rateLimitStore = <<>>
  /\ limNow = 0
  /\ limConfig = [maxRequests |-> 0, windowMs |-> 0]
  /\ limResp = NoLimResp
  /\ limLog = <<>>

\* no error has been constructed
NoContext == <<>>
NoError == [kind |-> "none", typed |-> FALSE, recoverable |-> FALSE,
            context |-> NoContext]
NoErrorCheck == [checked |-> FALSE, isRecoverable |-> FALSE]
InitErrorsIdle ==
  /\ errInput = [kind |-> "none", context |-> NoContext]
  /\ errThrown = NoError
  /\ errChecked = NoErrorCheck

\* no request has gone through a middleware chain
NoMwResp ==
  [done |-> FALSE, status |-> 0, headers |-> {}, body |-> {}, message |-> "none"]
InitMiddlewareIdle ==
  /\ mwInput = [chain |-> "none", req |-> [authorization |-> "", xApiKey |-> "", apiKey |-> ""],
                required |-> "viewer", outcome |-> "none", nodeEnv |-> "production"]
  /\ mwResp = NoMwResp

\* no listing has been asked for
NoListingResult == [done |-> FALSE, ungated |-> <<>>, gated |-> <<>>]
InitListingIdle ==
  /\ lstGroup = <<>>
  /\ lstResult = NoListingResult

\* nothing has been collected from the simulator
NoSimSeen == [done |-> FALSE, calls |-> <<>>, metrics |-> <<>>, healthChecks |-> <<>>, alerts |-> <<>>]
InitSimulatorIdle ==
  /\ simulator = [scenarioActive |-> "none", scenarioStartTime |-> 0]
  /\ simCalls = <<>>
  /\ simSeen = NoSimSeen

\* no event is being handled
NoXfResult == [executed |-> FALSE, success |-> FALSE, rolledBack |-> FALSE, rollbackThrew |-> FALSE]
NoXfState == [executionStatus |-> <<>>, rollbackSnapshots |-> <<>>, snapshotAttempt |-> 0 - 1]
InitExecuteFixIdle ==
  /\ xfEvent = [incidentId |-> "none", alertType |-> "unknown", attempt |-> 0]
  /\ xfPc = "idle"
  /\ xfState = NoXfState
  /\ xfResult = NoXfResult
  /\ xfTrace = <<>>
  /\ xfPublished = 0

\* no approval request is in flight
InitRaceIdle ==
  /\ rcRequests = <<>>
  /\ rcPending = <<>>
  /\ rcEvents = <<>>

\* no rca.completed event is being handled
NoPoAnswer == [asked |-> FALSE, afterEvent |-> FALSE, status |-> 0]
InitPolicyOrderIdle ==
  /\ poRca = [incidentId |-> "none"]
  /\ poPc = "idle"
  /\ poPublished = {}
  /\ poPending = <<>>
  /\ poAnswer = NoPoAnswer

\* no rollback call is under way
NoRbOutcome == [returned |-> FALSE, threw |-> FALSE, success |-> FALSE, verificationPassed |-> FALSE, stored |-> FALSE]
InitRollbackStepsIdle ==
  /\ rbSnapshot = [found |-> FALSE, alertType |-> "none"]
  /\ rbPc = "idle"
  /\ rbIndex = 0
  /\ rbErrors = <<>>
  /\ rbTrace = <<>>
  /\ rbOutcome = NoRbOutcome

\* the client has no caller
InitProbeIdle ==
  /\ promEnabled = "null"
  /\ promCheck = "none"
  /\ promProbes = 0
  /\ promCallers = <<>>

\* no call of the cache is in flight
NoCrGet == [pc |-> "none", missed |-> FALSE, data |-> "null"]
NoCrSet == [pc |-> "none", value |-> "null"]
InitCacheRaceIdle ==
  /\ crGet = NoCrGet
  /\ crSet = NoCrSet

\* the scheduler has not started a run
InitMonitorIdle ==
  /\ monPc = "none"
  /\ monAlerts = <<>>
  /\ monIdx = 0
  /\ monStored = {}
  /\ monStreamed = {}
  /\ monEmitted = <<>>
  /\ monHistory = 0
  /\ monSandbox = "unmeasured"
  /\ monFailures = {}
  /\ monOutcome = "none"

\* no approval.required event is being handled
NoSnEvent == [webhook |-> FALSE, alertType |-> "none", diskUsagePercent |-> 0]
InitNotifyIdle ==
  /\ snEvent = NoSnEvent
  /\ snPc = "none"
  /\ snSendError = "none"
  /\ snRecord = "none"
  /\ snPending = "none"
  /\ snOutcome = "none"

InitServicesIdle ==
  /\ InitCleanupIdle /\ InitThresholdIdle /\ InitCacheIdle
  /\ InitLimiterIdle /\ InitErrorsIdle
  /\ InitMiddlewareIdle
  /\ InitListingIdle
  /\ InitSimulatorIdle
  /\ InitExecuteFixIdle
  /\ InitRaceIdle
  /\ InitPolicyOrderIdle
  /\ InitRollbackStepsIdle
  /\ InitProbeIdle
  /\ InitCacheRaceIdle
  /\ InitMonitorIdle
  /\ InitNotifyIdle

Init == InitPipeline /\ InitPolicyIdle /\ InitAuthIdle /\ InitServicesIdle

Events(topic) == {m \in BagToSet(inbox) : m.topic = topic}

\* parameters of the approval requests
ApprovalActions == {"approve", "reject"}
ExecuteOptions == {"", "clear_sandbox", "restart_container", "both"}
ContainerFor(execute) == IF execute = "restart_container" THEN "api-server" ELSE ""

TriggerStep == Idle /\ \E scenario \in PipelineScenarios : TriggerAlert(scenario)
MonitorStep == Idle /\ MonitorCycle
SandboxStep == Idle /\ SandboxFills
RCAStep ==
  Idle /\ \E m \in Events("alert.detected"), riskLevel \in PipelineRisks,
             proposedFix \in PipelineFixes, persistNow \in BOOLEAN :
            RCAStage(m, riskLevel, proposedFix, persistNow)
RCAPersistStep == Idle /\ \E m \in BagToSet(published) : RCAPersist(m)
PolicyStep == Idle /\ \E m \in Events("rca.completed") : PolicyEngine(m)
ManualApprovalGetStep ==
  Idle /\ \E incidentId \in IncidentIds, action \in ApprovalActions,
             execute \in ExecuteOptions, req \in PipelineRequests :
            \E outcome \in ActionOutcomes(action, execute, sandboxOver) :
              ManualApprovalGet(incidentId, action, execute, ContainerFor(execute),
                                req, outcome)
ManualApprovalPostStep ==
  Idle /\ \E incidentId \in IncidentIds, action \in ApprovalActions,
             req \in PipelineRequests :
            ManualApprovalPost(incidentId, action, req)
SlackApproveStep == Idle /\ \E incidentId \in IncidentIds : SlackApprove(incidentId)
SlackRejectStep == Idle /\ \E incidentId \in IncidentIds : SlackReject(incidentId)
ExecuteFixStep ==
  Idle /\ \E m \in Events("fix.approved") :
            \E outcome \in FixOutcomes(m.rcaResult.alertType, sandboxOver) :
              \E rollbackOutcome \in FixRollbackOutcomes(m.rcaResult.alertType,
                                                          outcome.cleanupOk) :
                ExecuteFix(m, outcome, rollbackOutcome)
ExecuteFixSkippedStep == Idle /\ \E m \in Events("fix.approved") : ExecuteFixSkipped(m)
VerifyStep == Idle /\ \E m \in Events("fix.executed") : VerifyResolution(m)

Next ==
  \/ TriggerStep
  \/ MonitorStep
  \/ SandboxStep
  \/ RCAStep
  \/ RCAPersistStep
  \/ PolicyStep
  \/ ManualApprovalGetStep
  \/ ManualApprovalPostStep
  \/ SlackApproveStep
  \/ SlackRejectStep
  \/ ExecuteFixStep
  \/ ExecuteFixSkippedStep
  \/ VerifyStep

Spec == Init /\ [][Next]_vars

(***************************************************************************)
(* Specification of the policy decision on its own: evaluatePolicy and the *)
(* handler's publications over a range of RCA results and saved rules.     *)
(***************************************************************************)
PolicyFixes ==
  {"Restart the api-server container",
   "Scale the worker pool and clear-cache",
   "delete-data under /var/cache then restart",
   "Run DELETE-DATA on the volume",
   "Restart, then Delete-Data of old sessions",
   "delete data by hand",
   "drop-database metrics_old",
   ""}

\* contents of state group policy-rules: nothing saved, the defaults saved,
\* and saved rules that differ from the defaults
PolicyRuleGroups ==
  {EmptyGroup,
   "default" :> defaultRules,
   "default" :> [defaultRules EXCEPT !.blockedActions = {}],
   "default" :> [defaultRules EXCEPT !.autoApproveThreshold = "none",
                                     !.requireApprovalFor = {"high"}]}

InitPolicy ==
  /\ polRca \in [incidentId : {"alert-1"}, riskLevel : RiskLevels,
                 proposedFix : PolicyFixes,
                 alertType : AlertTypes \cup {NoAlertType}]
  /\ polRules \in PolicyRuleGroups
  /\ polDecision = NoDecision
  /\ polEmitted = {}

\* the handler's evaluation of one RCA result and what it publishes for it
EvaluatePolicy ==
  /\ polDecision = NoDecision
  /\ LET decision == evaluatePolicy(polRca, loadPolicyRules(polRules)) IN
     /\ polDecision' = decision
     /\ polEmitted' = policyEmits(polRca, decision)
  /\ UNCHANGED <<polRca, polRules, pipeVars, authVars, svcVars>>

NextPolicy == EvaluatePolicy

InitPolicyOnly == InitPolicy /\ InitPipeline /\ InitAuthIdle /\ InitServicesIdle

SpecPolicy == InitPolicyOnly /\ [][NextPolicy]_vars

\* C2: an RCA result whose metadata.alertType is sandbox_disk_full is decided
\* require-approval whatever its risk level, its proposed fix and the saved
\* rules, and the handler publishes no fix.approved for it.
C2_SandboxAlwaysRequiresApproval ==
  (polDecision # NoDecision /\ polRca.alertType = "sandbox_disk_full")
    => /\ polDecision.action = "require-approval"
       /\ \A e \in polEmitted : e.topic # "fix.approved"

\* a low-risk sandbox RCA result with a harmless fix has been decided
C2_Witness ==
  /\ polDecision.action = "require-approval"
  /\ polRca.alertType = "sandbox_disk_full"
  /\ polRca.riskLevel = "low"
  /\ polRca.proposedFix = "Restart the api-server container"
  /\ loadPolicyRules(polRules) = defaultRules
  /\ \E e \in polEmitted : e.topic = "approval.required"

ContainsDeleteData(proposedFix) == includes(toLowerCase(proposedFix), "delete-data")

\* C3 (amended): under the default rules, an RCA result whose proposedFix
\* contains "delete-data" in any letter case, and whose metadata.alertType is
\* not sandbox_disk_full, is decided reject whatever its risk level.
C3_BlockedFixRejectedUnlessSandbox ==
  (/\ polDecision # NoDecision
   /\ loadPolicyRules(polRules) = defaultRules
   /\ ContainsDeleteData(polRca.proposedFix)
   /\ polRca.alertType # "sandbox_disk_full")
    => polDecision.action = "reject"

\* an upper-case occurrence of the keyword in a low-risk result was rejected
C3_Witness ==
  /\ polDecision.action = "reject"
  /\ polRca.proposedFix = "Run DELETE-DATA on the volume"
  /\ polRca.riskLevel = "low"
  /\ polRca.alertType = "disk_full"
  /\ polRules = EmptyGroup
  /\ polEmitted = {}

\* C3 as stated: under the default rules every RCA result whose proposedFix
\* contains "delete-data" is decided reject.
C3_BlockedFixAlwaysRejected ==
  (/\ polDecision # NoDecision
   /\ loadPolicyRules(polRules) = defaultRules
   /\ ContainsDeleteData(polRca.proposedFix))
    => polDecision.action = "reject"

(***************************************************************************)
(* Specification of the middleware chain on its own: one request against   *)
(* an endpoint gated with [authMiddleware, requireRole(authRequired)].     *)
(***************************************************************************)
UnknownKey == "sk-sentinal-unknown-key-00000"

AuthorizationHeaders ==
  {"", "Bearer ", "Bearer " \o AdminKey, "Bearer " \o ViewerKey,
   "Bearer " \o UnknownKey, "Basic " \o AdminKey, "bearer " \o OperatorKey}

KeyValues == {"", AdminKey, OperatorKey, ViewerKey, UnknownKey}

InitAuth ==
  /\ authReq \in [authorization : AuthorizationHeaders, xApiKey : KeyValues,
                  apiKey : KeyValues]
  /\ authRequired \in UserRoles
  /\ authResp = [status |-> 0, handled |-> FALSE]

\* the platform runs the chain and, when every middleware calls next, the
\* endpoint handler, which answers 200
GatedRequest ==
  /\ authResp.status = 0
  /\ LET chain == protectWith(authReq, authRequired) IN
     authResp' = IF chain.next THEN [status |-> 200, handled |-> TRUE]
                 ELSE [status |-> chain.status, handled |-> FALSE]
  /\ UNCHANGED <<authReq, authRequired, pipeVars, polVars, svcVars>>

NextAuth == GatedRequest

InitAuthOnly == InitAuth /\ InitPipeline /\ InitPolicyIdle /\ InitServicesIdle

SpecAuth == InitAuthOnly /\ [][NextAuth]_vars

\* the credential a request presents: the bearer token, else the X-API-Key
\* header, else the apiKey query parameter
PresentedKey(req) ==
  IF Len(req.authorization) >= 7 /\ SubSeq(req.authorization, 1, 7) = "Bearer "
  THEN SubSeq(req.authorization, 8, Len(req.authorization))
  ELSE IF req.xApiKey # "" THEN req.xApiKey ELSE req.apiKey

DemoKeys == {AdminKey, OperatorKey, ViewerKey}
RoleOfKey(k) ==
  IF k = AdminKey THEN "admin" ELSE IF k = OperatorKey THEN "operator" ELSE "viewer"
RoleRank(r) == IF r = "admin" THEN 3 ELSE IF r = "operator" THEN 2 ELSE 1

\* C7: on an endpoint gated with authentication -> requireRole(q), a missing
\* or unknown key is answered 401 and a role ranking below q is answered 403,
\* the handler not being invoked in either case; a role ranking at or above q
\* reaches the handler, and a request that is let through for q is let
\* through for every requirement that ranks no higher than q.
C7_RoleGate ==
  authResp.status # 0 =>
    LET key == PresentedKey(authReq) IN
    /\ key \notin DemoKeys => authResp = [status |-> 401, handled |-> FALSE]
    /\ (key \in DemoKeys /\ RoleRank(RoleOfKey(key)) < RoleRank(authRequired))
         => authResp = [status |-> 403, handled |-> FALSE]
    /\ (key \in DemoKeys /\ RoleRank(RoleOfKey(key)) >= RoleRank(authRequired))
         => authResp.handled
    /\ authResp.handled =>
         \A q \in UserRoles :
           RoleRank(q) <= RoleRank(authRequired) => protectWith(authReq, q).next

\* an operator key in the query parameter has passed an operator gate
C7_Witness ==
  /\ authResp.handled
  /\ authReq = [authorization |-> "", xApiKey |-> "", apiKey |-> OperatorKey]
  /\ authRequired = "operator"

(***************************************************************************)
(* Properties of the pipeline.                                             *)
(***************************************************************************)
\* events published by a step
NewEvents ==
  {e \in BagToSet(published') : CopiesIn(e, published') > CopiesIn(e, published)}

\* what the claim requires of a Policy Engine step for incident id
PolicyEffects(id) ==
  /\ DOMAIN policyDecisions' = DOMAIN policyDecisions \cup {id}
  /\ policyDecisions'[id].decision \in {"auto-approve", "require-approval", "reject"}
  /\ \A other \in DOMAIN policyDecisions \ {id} :
        policyDecisions'[other] = policyDecisions[other]
  /\ policyDecisions'[id].decision = "auto-approve" =>
        /\ \E e \in NewEvents :
              /\ NewEvents = {e}
              /\ CopiesIn(e, published') = CopiesIn(e, published) + 1
              /\ e.topic = "fix.approved" /\ e.incidentId = id
              /\ e.approvalType = "automatic" /\ e.approvedBy = "policy-engine"
        /\ approvalPending' = approvalPending
        /\ ~Has(approvalPending', id)
  /\ policyDecisions'[id].decision = "require-approval" =>
        /\ \E e \in NewEvents :
              /\ NewEvents = {e}
              /\ CopiesIn(e, published') = CopiesIn(e, published) + 1
              /\ e.topic = "approval.required" /\ e.incidentId = id
        /\ Has(approvalPending', id)
        /\ approvalPending'[id].status = "pending"
  /\ policyDecisions'[id].decision = "reject" =>
        /\ Has(policyRejections', id)
        /\ approvalPending' = approvalPending
        /\ ~Has(approvalPending', id)
        /\ NewEvents = {}

\* C1: every rca.completed event the Policy Engine handles persists one
\* PolicyDecision under policy-decisions, and the effects match the decision:
\* auto-approve publishes one fix.approved (approvalType automatic, approvedBy
\* policy-engine) and creates no PendingApproval; require-approval publishes
\* one approval.required and stores a PendingApproval with status pending;
\* reject writes a policy-rejections record, creates no PendingApproval and
\* publishes nothing.
C1_PolicyDecisionEffects ==
  [][\A m \in Events("rca.completed") : PolicyEngine(m) => PolicyEffects(m.incidentId)]_vars

\* a fix with a blocked keyword was rejected: the rejection is recorded, no
\* PendingApproval exists and nothing but the analysis was published
C1_Witness ==
  \E id \in DOMAIN policyDecisions :
    /\ policyDecisions[id].decision = "reject"
    /\ Has(policyRejections, id)
    /\ ~Has(approvalPending, id)
    /\ PublishedOn("fix.approved", id) = {}
    /\ PublishedOn("approval.required", id) = {}

Refused ==
  /\ approvalPending' = approvalPending
  /\ cleanupRuns' = cleanupRuns
  /\ sandboxOver' = sandboxOver
  /\ published' = published
  /\ inbox' = inbox

AlreadyProcessed ==
  lastResponse'.status = 400 /\ lastResponse'.kind = "already-processed"

\* a step is a manual-approval request for incident id that passed the
\* operator gate of the endpoint
ManualApprovalRequest(id) ==
  \/ \E action \in ApprovalActions, execute \in ExecuteOptions,
        req \in PipelineRequests :
       /\ protectWith(req, "operator").next
       /\ \E outcome \in ActionOutcomes(action, execute, sandboxOver) :
            ManualApprovalGet(id, action, execute, ContainerFor(execute), req, outcome)
  \/ \E action \in ApprovalActions, req \in PipelineRequests :
       /\ protectWith(req, "operator").next
       /\ ManualApprovalPost(id, action, req)

\* C5 (amended): a manual-approval request (GET or POST) that passed the gate
\* is answered 404 when the incident has no PendingApproval record, or when
\* its PendingApproval is pending and its RCA result is missing; it is answered
\* with the already-processed error (400) when the PendingApproval status is
\* not pending, whether or not the RCA result exists.  In each of these cases
\* approval-pending is unchanged, no action runs and nothing is published.
C5_ManualApprovalRefusals ==
  [][\A id \in IncidentIds :
       ManualApprovalRequest(id) =>
         /\ ~Has(approvalPending, id) => (lastResponse'.status = 404 /\ Refused)
         /\ (Has(approvalPending, id) /\ approvalPending[id].status # "pending")
              => (AlreadyProcessed /\ Refused)
         /\ (/\ Has(approvalPending, id)
             /\ approvalPending[id].status = "pending"
             /\ ~Has(rcaResults, id))
              => (lastResponse'.status = 404 /\ Refused)]_vars

\* the RCA result of a pending approval was missing when GET /manual-approval
\* arrived: 404, and the record is still pending
C5_Witness ==
  /\ lastResponse = [endpoint |-> "manual-approval-get", status |-> 404,
                     kind |-> "rca-not-found"]
  /\ \E id \in DOMAIN approvalPending :
        /\ approvalPending[id].status = "pending"
        /\ ~Has(rcaResults, id)
        /\ PublishedOn("fix.approved", id) = {}
        /\ PublishedOn("fix.rejected", id) = {}

\* C5 as stated: 404 whenever the PendingApproval record or the RCA result is
\* missing, the already-processed error whenever the status is not pending.
C5_ManualApprovalRefusalsAsStated ==
  [][\A id \in IncidentIds :
       ManualApprovalRequest(id) =>
         /\ (~Has(approvalPending, id) \/ ~Has(rcaResults, id))
              => (lastResponse'.status = 404 /\ Refused)
         /\ (Has(approvalPending, id) /\ approvalPending[id].status # "pending")
              => (AlreadyProcessed /\ Refused)]_vars

\* a step is GET /manual-approval?action=approve with execute clear_sandbox or
\* both for incident id, by a caller authenticated with a role other than admin
CleanupRequestByNonAdmin(id) ==
  \E execute \in {"clear_sandbox", "both"}, req \in PipelineRequests :
    /\ PresentedKey(req) \in DemoKeys
    /\ RoleOfKey(PresentedKey(req)) # "admin"
    /\ \E outcome \in ActionOutcomes("approve", execute, sandboxOver) :
         ManualApprovalGet(id, "approve", execute, "", req, outcome)

C9_BoundedRetries ==
  \A id \in DOMAIN fixRuns :
    /\ fixRuns[id].runs <= HandlerRetries + 1
    /\ fixRuns[id].threw = fixRuns[id].runs =>
         /\ PublishedOn("fix.executed", id) = {}
         /\ fixRuns[id].runs = HandlerRetries + 1 =>
              \A m \in Events("fix.approved") : m.incidentId # id

\* four runs of the handler have thrown for an incident: the event is gone
\* from the queue and no fix.executed exists
C9_Witness ==
  \E id \in DOMAIN fixRuns :
    /\ fixRuns[id] = [runs |-> 4, threw |-> 4]
    /\ \A m \in Events("fix.approved") : m.incidentId # id
    /\ PublishedOn("fix.executed", id) = {}
    /\ executionStatus[id].status = "failed_rollback_failed"

(***************************************************************************)
(* Specification of the Rollback Manager on its own: snapshots are taken   *)
(* and rollbacks are requested, by direct call and by POST /rollback, for  *)
(* ids with and without a snapshot.                                        *)
(***************************************************************************)
UnknownIncident == "alert-0"
RollbackIds == IncidentIds \cup {UnknownIncident}

SnapshotStep ==
  Idle /\ \E incidentId \in IncidentIds, alertType \in AlertTypes :
            SnapshotCall(incidentId, alertType)
RollbackCallStep ==
  Idle /\ \E incidentId \in RollbackIds, outcome \in RollbackOutcomes :
            RollbackCall(incidentId, outcome)
ManualRollbackStep ==
  Idle /\ \E incidentId \in RollbackIds, outcome \in RollbackOutcomes :
            ManualRollback(incidentId, outcome)

NextRollback == SnapshotStep \/ RollbackCallStep \/ ManualRollbackStep

SpecRollback == Init /\ [][NextRollback]_vars

\* C10: executeRollback for an incident id without a rollback snapshot raises
\* an error, runs no rollback step and appends nothing to rollback-history;
\* POST /rollback for such an id answers 404 and does not call executeRollback.
C10_RollbackNeedsSnapshot ==
  [][\A id \in RollbackIds :
       ~Has(rollbackSnapshots, id) =>
         /\ (\E outcome \in RollbackOutcomes : RollbackCall(id, outcome)) =>
              /\ lastRollback' = [incidentId |-> id, threw |-> TRUE,
                                  stepsRun |-> <<>>, wrote |-> FALSE]
              /\ rollbackHistory' = rollbackHistory
         /\ (\E outcome \in RollbackOutcomes : ManualRollback(id, outcome)) =>
              /\ lastResponse'.status = 404
              /\ rollbackHistory' = rollbackHistory
              /\ lastRollback' = lastRollback]_vars

\* both a direct call and POST /rollback have happened for an id without a
\* snapshot: the call threw, the request was answered 404, the history is empty
C10_Witness ==
  /\ lastRollback = [incidentId |-> UnknownIncident, threw |-> TRUE,
                     stepsRun |-> <<>>, wrote |-> FALSE]
  /\ lastResponse = [endpoint |-> "rollback", status |-> 404, kind |-> "no-snapshot"]
  /\ ~Has(rollbackSnapshots, UnknownIncident)
  /\ rollbackHistory = <<>>

(***************************************************************************)
(* Specification of the pipeline under fair scheduling: the platform       *)
(* delivers every queued fix.approved and fix.executed event to its        *)
(* subscriber, and no scenario is triggered while an executed fix awaits   *)
(* its verification.                                                       *)
(***************************************************************************)
\* POST /trigger-alert while no executed fix awaits its verification
TriggerBetweenFixes == Events("fix.executed") = {} /\ TriggerStep

NextLive ==
  \/ TriggerBetweenFixes
  \/ MonitorStep
  \/ SandboxStep
  \/ RCAStep
  \/ RCAPersistStep
  \/ PolicyStep
  \/ ManualApprovalGetStep
  \/ ManualApprovalPostStep
  \/ SlackApproveStep
  \/ SlackRejectStep
  \/ ExecuteFixStep
  \/ ExecuteFixSkippedStep
  \/ VerifyStep

SpecLive ==
  /\ Init
  /\ [][NextLive]_vars
  /\ WF_vars(ExecuteFixStep)
  /\ WF_vars(VerifyStep)

AutoApproved(id) ==
  /\ Has(policyDecisions, id)
  /\ policyDecisions[id].decision = "auto-approve"
  /\ Has(alerts, id)
  /\ alerts[id].alertType \in SimulatedFixes

Resolved(id) ==
  /\ Has(incidents, id)
  /\ incidents[id].id = id
  /\ incidents[id].status = "resolved"
  /\ Has(stream, id)
  /\ stream[id].id = id
  /\ stream[id].status = "resolved"
  /\ stream[id].executionProgress = 100

\* C8: under fair scheduling, without failures and without a scenario being
\* triggered between a fix and its verification, a simulated alert whose RCA
\* result is auto-approved eventually has, and keeps, one record under
\* incidents with status resolved and a stream record of the same id with
\* status resolved and executionProgress 100.
C8_AutoApprovedGetsResolved ==
  \A id \in IncidentIds : AutoApproved(id) ~> [](Resolved(id))

\* an auto-approved incident has been executed, verified and recorded
C8_Witness ==
  \E id \in IncidentIds :
    /\ AutoApproved(id)
    /\ Resolved(id)
    /\ verificationResults[id].resolved
    /\ executionStatus[id].status = "completed"

(***************************************************************************)
(* Rollback history.                                                       *)
(***************************************************************************)
\* C11: for an incident that has a rollback snapshot, whatever its alert type
\* and whatever the outcomes of the steps and of the verification, a call of
\* executeRollback appends one record to rollback-history.
C11_RollbackAlwaysRecorded ==
  [][\A id \in IncidentIds, outcome \in RollbackOutcomes :
       Has(rollbackSnapshots, id) /\ RollbackCall(id, outcome) =>
         /\ Len(rollbackHistory') = Len(rollbackHistory) + 1
         /\ rollbackHistory'[Len(rollbackHistory')].incidentId = id]_vars

(***************************************************************************)
(* Incident Stream records.                                                *)
(***************************************************************************)
\* position of a status in the order of IncidentStreamRecord.status
StatusOrder == <<"detected", "analyzing", "pending_approval", "executing",
                 "verifying", "resolved", "failed">>
StatusRank(status) == CHOOSE k \in DOMAIN StatusOrder : StatusOrder[k] = status

\* C12: whatever the pipeline stages write, the status of the stream record of
\* an incident id never moves backward in the order detected, analyzing,
\* pending_approval, executing, verifying, resolved, failed.
C12_StreamStatusMonotone ==
  [][\A id \in DOMAIN stream :
       /\ id \in DOMAIN stream'
       /\ StatusRank(stream'[id].status) >= StatusRank(stream[id].status)]_vars

\* a record written at detection by the scheduler has been rewritten by
\* Verify-Resolution
C12_Witness ==
  \E id \in DOMAIN stream :
    /\ stream[id].status = "resolved"
    /\ Has(alerts, id) /\ alerts[id].alertType = "sandbox_disk_full"
    /\ Has(verificationResults, id) /\ verificationResults[id].resolved

\* C13: the fields other than status written to the stream record at detection
\* (severity, metadata, timestamps.detected) keep their values in every later
\* version of the record.
C13_DetectionFieldsKept ==
  [][\A id \in DOMAIN stream :
       /\ id \in DOMAIN stream'
       /\ stream'[id].severity = stream[id].severity
       /\ "metadata" \in DOMAIN stream[id] =>
            /\ "metadata" \in DOMAIN stream'[id]
            /\ stream'[id].metadata = stream[id].metadata
       /\ stream'[id].timestamps.detected = stream[id].timestamps.detected]_vars

(***************************************************************************)
(* Sandbox Monitor (sandbox-monitor.ts): executeCleanup, followed one      *)
(* file-system call at a time so that two runs can interleave.             *)
(***************************************************************************)
LogsKept == 5      \* logStats.slice(0, -5)
MaxLogs == 7       \* log files a sandbox holds at most

entry(dir, name, kind, mtime, old) ==
  [dir |-> dir, name |-> name, kind |-> kind, mtime |-> mtime, old |-> old]

\* the entries a sandbox may hold, per directory in the order readdir lists
\* them; old tells that the age is past the limit of the temp phase
TempEntries ==
  << entry("temp", "t1", "file", 1, TRUE), entry("temp", "t2", "file", 2, FALSE) >>
LogEntries ==
  [k \in 1..MaxLogs |-> entry("logs", "l" \o ToString(k), "file", MaxLogs + 1 - k, TRUE)]
CacheEntries ==
  << entry("cache", "c1", "file", 1, TRUE), entry("cache", "c2", "dir", 2, TRUE),
     entry("cache", "c3", "file", 3, TRUE) >>
DataEntries == << entry("data", "d1", "file", 1, TRUE) >>

SeqRange(seq) == {seq[k] : k \in DOMAIN seq}
DirEntries(dir) ==
  CASE dir = "temp" -> TempEntries
    [] dir = "logs" -> LogEntries
    [] dir = "cache" -> CacheEntries
    [] dir = "data" -> DataEntries

SandboxContents ==
  {T \cup L \cup C \cup D :
     T \in SUBSET SeqRange(TempEntries),
     L \in {{LogEntries[k] : k \in 1..n} : n \in 0..MaxLogs},
     C \in SUBSET SeqRange(CacheEntries),
     D \in SUBSET SeqRange(DataEntries)}

\* fs.readdir(path.join(SANDBOX_PATH, dir))
readdir(files, dir) ==
  LET exists(e) == e \in files IN SelectSeq(DirEntries(dir), exists)

\* fs.stat(filePath) fulfils
statOk(files, e) == e \in files

\* fs.unlink(filePath) fulfils: the entry exists and is not a directory
unlinkOk(files, e) == e \in files /\ e.kind = "file"

\* logStats.sort((a, b) => a.mtime.getTime() - b.mtime.getTime()), a stable sort
sortByMtime(listing) ==
  LET n == Len(listing)
      pos(k) == 1 + Cardinality({j \in 1..n :
                                   \/ listing[j].mtime < listing[k].mtime
                                   \/ listing[j].mtime = listing[k].mtime /\ j < k})
  IN [p \in 1..n |-> listing[CHOOSE k \in 1..n : pos(k) = p]]

\* logStats.slice(0, -5)
allButNewest(sorted) ==
  IF Len(sorted) <= LogsKept THEN <<>> ELSE SubSeq(sorted, 1, Len(sorted) - LogsKept)

\* the directories the three phases work in
tempDir == "temp"
logsDir == "logs"
cacheDirAsData == "data"
cacheDir == "cache"

\* a failed phase abandons the whole cleanup
afterPhaseErrorAbort(phase) == "failed"
\* the catch of a phase: the cleanup goes on with the next phase
afterPhaseError(phase) ==
  CASE phase = "temp" -> "logs.readdir"
    [] phase = "logs" -> "cache.readdir"
    [] phase = "cache" -> "finish"

\* run r moves to the call pc with the loop's listing and position
CleanupGoto(r, pc, listing, idx) ==
  /\ cleanupPc' = [cleanupPc EXCEPT ![r] = pc]
  /\ cleanupListing' = [cleanupListing EXCEPT ![r] = listing]
  /\ cleanupIdx' = [cleanupIdx EXCEPT ![r] = idx]

\* a call of the phase rejected: details.push('... skipped (not found)')
CleanupPhaseFails(r, phase) ==
  /\ CleanupGoto(r, afterPhaseError(phase), NoListing, 1)
  /\ cleanupResult' = [cleanupResult EXCEPT ![r].skipped = @ \cup {phase}]

\* the loop of run r goes on with its next entry, or the phase is over
CleanupLoopNext(r, loopPc, nextPc) ==
  IF cleanupIdx[r] < Len(cleanupListing[r])
  THEN CleanupGoto(r, loopPc, cleanupListing[r], cleanupIdx[r] + 1)
  ELSE CleanupGoto(r, nextPc, NoListing, 1)

OutsideCleanup ==
  UNCHANGED <<pipeVars, polVars, authVars, thVars, cacheVars, limVars, errVars,
              sandboxBefore,
              mwVars,
              lstVars,
              simVars,
              xfVars,
              raceVars,
              poVars,
              rbVars,
              promVars,
              crVars,
              monVars,
              snVars>>

\* executeCleanup is called: collectMetrics() before the phases
CleanupStart(r) ==
  /\ cleanupPc[r] = "ready"
  /\ CleanupGoto(r, "temp.readdir", NoListing, 1)
  /\ UNCHANGED <<sandboxFiles, cleanupResult>>
  /\ OutsideCleanup

\* temp phase: fs.readdir(tempDir)
CleanupTempReaddir(r) ==
  /\ cleanupPc[r] = "temp.readdir"
  /\ LET tempFiles == readdir(sandboxFiles, tempDir) IN
     IF tempFiles = <<>>
     THEN CleanupGoto(r, "logs.readdir", NoListing, 1)
     ELSE CleanupGoto(r, "temp.stat", tempFiles, 1)
  /\ UNCHANGED <<sandboxFiles, cleanupResult>>
  /\ OutsideCleanup

\* temp phase: fs.stat(filePath) and the test of the age
CleanupTempStat(r) ==
  /\ cleanupPc[r] = "temp.stat"
  /\ LET file == cleanupListing[r][cleanupIdx[r]] IN
     IF ~statOk(sandboxFiles, file)
     THEN CleanupPhaseFails(r, "temp")
     ELSE /\ IF file.old
             THEN CleanupGoto(r, "temp.unlink", cleanupListing[r], cleanupIdx[r])
             ELSE CleanupLoopNext(r, "temp.stat", "logs.readdir")
          /\ UNCHANGED cleanupResult
  /\ UNCHANGED sandboxFiles
  /\ OutsideCleanup

\* temp phase: fs.unlink(filePath)
CleanupTempUnlink(r) ==
  /\ cleanupPc[r] = "temp.unlink"
  /\ LET file == cleanupListing[r][cleanupIdx[r]] IN
     IF unlinkOk(sandboxFiles, file)
     THEN /\ sandboxFiles' = sandboxFiles \ {file}
          /\ CleanupLoopNext(r, "temp.stat", "logs.readdir")
          /\ UNCHANGED cleanupResult
     ELSE /\ CleanupPhaseFails(r, "temp")
          /\ UNCHANGED sandboxFiles
  /\ OutsideCleanup

\* logs phase: fs.readdir(logsDir)
CleanupLogsReaddir(r) ==
  /\ cleanupPc[r] = "logs.readdir"
  /\ CleanupGoto(r, "logs.stat", readdir(sandboxFiles, logsDir), 1)
  /\ UNCHANGED <<sandboxFiles, cleanupResult>>
  /\ OutsideCleanup

\* logs phase: Promise.all of fs.stat over the listing, the sort and the slice.
\* Entries only ever disappear, so the stats all fulfil exactly when every
\* listed entry exists at the first of them.
CleanupLogsStat(r) ==
  /\ cleanupPc[r] = "logs.stat"
  /\ IF \A k \in DOMAIN cleanupListing[r] : statOk(sandboxFiles, cleanupListing[r][k])
     THEN LET toDelete == allButNewest(sortByMtime(cleanupListing[r])) IN
          /\ IF toDelete = <<>>
             THEN CleanupGoto(r, "cache.readdir", NoListing, 1)
             ELSE CleanupGoto(r, "logs.unlink", toDelete, 1)
          /\ UNCHANGED cleanupResult
     ELSE CleanupPhaseFails(r, "logs")
  /\ UNCHANGED sandboxFiles
  /\ OutsideCleanup

\* logs phase: fs.unlink(file.path)
CleanupLogsUnlink(r) ==
  /\ cleanupPc[r] = "logs.unlink"
  /\ LET file == cleanupListing[r][cleanupIdx[r]] IN
     IF unlinkOk(sandboxFiles, file)
     THEN /\ sandboxFiles' = sandboxFiles \ {file}
          /\ CleanupLoopNext(r, "logs.unlink", "cache.readdir")
          /\ UNCHANGED cleanupResult
     ELSE /\ CleanupPhaseFails(r, "logs")
          /\ UNCHANGED sandboxFiles
  /\ OutsideCleanup

\* cache phase: fs.readdir(cacheDir)
CleanupCacheReaddir(r) ==
  /\ cleanupPc[r] = "cache.readdir"
  /\ LET cacheFiles == readdir(sandboxFiles, cacheDir) IN
     IF cacheFiles = <<>>
     THEN CleanupGoto(r, "finish", NoListing, 1)
     ELSE CleanupGoto(r, "cache.unlink", cacheFiles, 1)
  /\ UNCHANGED <<sandboxFiles, cleanupResult>>
  /\ OutsideCleanup

\* cache phase: fs.unlink(path.join(cacheDir, file))
CleanupCacheUnlink(r) ==
  /\ cleanupPc[r] = "cache.unlink"
  /\ LET file == cleanupListing[r][cleanupIdx[r]] IN
     IF unlinkOk(sandboxFiles, file)
     THEN /\ sandboxFiles' = sandboxFiles \ {file}
          /\ CleanupLoopNext(r, "cache.unlink", "finish")
          /\ UNCHANGED cleanupResult
     ELSE /\ CleanupPhaseFails(r, "cache")
          /\ UNCHANGED sandboxFiles
  /\ OutsideCleanup

\* collectMetrics() after the phases and the return of { success: true, ... },
\* or the outer catch and the return of { success: false, ... }
CleanupFinish(r) ==
  /\ cleanupPc[r] \in {"finish", "failed"}
  /\ cleanupResult' = [cleanupResult EXCEPT ![r].returned = TRUE,
                                            ![r].success = (cleanupPc[r] = "finish")]
  /\ CleanupGoto(r, "done", NoListing, 1)
  /\ UNCHANGED sandboxFiles
  /\ OutsideCleanup

NextCleanup ==
  \E r \in CleanupRuns :
    \/ CleanupStart(r)
    \/ CleanupTempReaddir(r)
    \/ CleanupTempStat(r)
    \/ CleanupTempUnlink(r)
    \/ CleanupLogsReaddir(r)
    \/ CleanupLogsStat(r)
    \/ CleanupLogsUnlink(r)
    \/ CleanupCacheReaddir(r)
    \/ CleanupCacheUnlink(r)
    \/ CleanupFinish(r)

InitOutsideCleanup ==
  /\ InitPipeline /\ InitPolicyIdle /\ InitAuthIdle /\ InitThresholdIdle
  /\ InitCacheIdle /\ InitLimiterIdle /\ InitErrorsIdle
  /\ InitMiddlewareIdle
  /\ InitListingIdle
  /\ InitSimulatorIdle
  /\ InitExecuteFixIdle
  /\ InitRaceIdle
  /\ InitPolicyOrderIdle
  /\ InitRollbackStepsIdle
  /\ InitProbeIdle
  /\ InitCacheRaceIdle
  /\ InitMonitorIdle
  /\ InitNotifyIdle

\* one run of executeCleanup on a sandbox of any content
InitCleanup ==
  /\ sandboxFiles \in SandboxContents
  /\ sandboxBefore = sandboxFiles
  /\ cleanupPc = [r \in CleanupRuns |-> IF r = 1 THEN "ready" ELSE "off"]
  /\ cleanupListing = [r \in CleanupRuns |-> NoListing]
  /\ cleanupIdx = [r \in CleanupRuns |-> 1]
  /\ cleanupResult = [r \in CleanupRuns |-> NoCleanupResult]
  /\ InitOutsideCleanup

SpecCleanup == InitCleanup /\ [][NextCleanup]_vars

\* two runs of executeCleanup started on the same sandbox
InitCleanupConcurrent ==
  /\ sandboxFiles \in SandboxContents
  /\ sandboxBefore = sandboxFiles
  /\ cleanupPc = [r \in CleanupRuns |-> "ready"]
  /\ cleanupListing = [r \in CleanupRuns |-> NoListing]
  /\ cleanupIdx = [r \in CleanupRuns |-> 1]
  /\ cleanupResult = [r \in CleanupRuns |-> NoCleanupResult]
  /\ InitOutsideCleanup

SpecCleanupConcurrent == InitCleanupConcurrent /\ [][NextCleanup]_vars

\* the entries of directory dir among files
Under(files, dir) == {e \in files : e.dir = dir}
\* position of an entry in the listing of its directory
ListedAt(e) == CHOOSE k \in DOMAIN DirEntries(e.dir) : DirEntries(e.dir)[k] = e

UnlinkedOf(targets) ==
  {targets[k] : k \in {i \in DOMAIN targets : \A j \in 1..i : targets[j].kind = "file"}}
\* what one run of executeCleanup on its own deletes from a sandbox: the temp
\* files past the age limit, the log files but the 5 newest, the cache files
SingleRunDeletes(before) ==
  LET pastLimit(e) == e.old IN
  UnlinkedOf(SelectSeq(readdir(before, "temp"), pastLimit))
    \cup UnlinkedOf(allButNewest(sortByMtime(readdir(before, "logs"))))
    \cup UnlinkedOf(readdir(before, "cache"))

\* C15: for every interleaving of two concurrent runs of executeCleanup on the
\* same sandbox, both runs return success, no file under data/ is removed, and
\* once both have returned every file that a single run would have deleted is
\* gone.
C15_ConcurrentCleanups ==
  /\ \A r \in CleanupRuns : cleanupResult[r].returned => cleanupResult[r].success
  /\ Under(sandboxBefore, "data") \subseteq sandboxFiles
  /\ (\A r \in CleanupRuns : cleanupResult[r].returned) =>
       SingleRunDeletes(sandboxBefore) \cap sandboxFiles = {}

\* both runs have returned; they met in the logs and in the cache (each of the
\* two had a phase end on an entry the other one had removed), and the old
\* logs, the old temp file and the cache files are gone
C15_Witness ==
  /\ \A r \in CleanupRuns : cleanupResult[r].returned /\ cleanupResult[r].success
  /\ cleanupResult[1].skipped = {"logs"}
  /\ cleanupResult[2].skipped = {"cache"}
  /\ \A e \in sandboxBefore : e.kind = "file"
  /\ Cardinality(Under(sandboxBefore, "logs")) = MaxLogs
  /\ Cardinality(Under(sandboxFiles, "logs")) = LogsKept
  /\ Cardinality(Under(sandboxBefore, "cache")) = 2
  /\ Under(sandboxFiles, "cache") = {}
  /\ Under(sandboxBefore, "data") # {}

\* one run on its own leaves exactly what SingleRunDeletes does not name
CleanupAloneDeletes ==
  cleanupResult[1].returned => sandboxFiles = sandboxBefore \ SingleRunDeletes(sandboxBefore)

(***************************************************************************)
(* Sandbox Monitor: the threshold, as isOverThreshold, verifyCleanup and   *)
(* the scheduler's sandbox check apply it to one measurement.              *)
(***************************************************************************)
THRESHOLD_MB == 100
SizeMargin == 4    \* sizes within this many units of 512 KB of the threshold

SandboxSizes == (2 * THRESHOLD_MB - SizeMargin)..(2 * THRESHOLD_MB + SizeMargin)
MonitoringScenarios == AlertTypes \cup {NoScenario}

\* Math.round(x / 2) of a non-negative integer x: halves round up
roundHalf(x) == (x + 1) \div 2

\* SandboxMonitor.collectMetrics: Math.round(totalSizeBytes / (1024 * 1024))
\* and Math.round((totalSizeMB / THRESHOLD_MB) * 100)
sandboxMetrics(halfMB) ==
  LET totalSizeMB == roundHalf(halfMB) IN
  [totalSizeMB |-> totalSizeMB,
   percentage |-> roundHalf((2 * totalSizeMB * 100) \div THRESHOLD_MB)]

getThresholdMB == THRESHOLD_MB

isOverThresholdStrict(metrics) == metrics.totalSizeMB > THRESHOLD_MB
isOverThreshold(metrics) == metrics.totalSizeMB >= THRESHOLD_MB

verifyCleanup(metrics) ==
  LET belowThreshold == metrics.totalSizeMB < THRESHOLD_MB IN
  [success |-> belowThreshold, currentSizeMB |-> metrics.totalSizeMB,
   belowThreshold |-> belowThreshold]

\* the alert of the scheduler's sandbox check, without id, timestamp and logs
sandboxAlertAt(metrics) ==
  [alertType |-> "sandbox_disk_full", severity |-> "high",
   metric |-> "sandbox_disk_usage_mb", currentValue |-> metrics.totalSizeMB,
   threshold |-> getThresholdMB, affectedResource |-> "sandbox-disk"]

\* step 6 of the InfrastructureMonitor handler
sandboxCheck(metrics) ==
  IF metrics.totalSizeMB >= getThresholdMB THEN << sandboxAlertAt(metrics) >> ELSE << >>

\* the alerts one run of the InfrastructureMonitor handler raises: those of
\* the primary source's health checks, then the one of the sandbox check
monitorAlerts(scenario, metrics) == simulatorAlerts(scenario) \o sandboxCheck(metrics)

OutsideThreshold ==
  UNCHANGED <<pipeVars, polVars, authVars, fsVars, cacheVars, limVars, errVars,
              mwVars,
              lstVars,
              simVars,
              xfVars,
              raceVars,
              poVars,
              rbVars,
              promVars,
              crVars,
              monVars,
              snVars>>

InitThreshold ==
  /\ sandboxHalfMB \in SandboxSizes
  /\ monitoringScenario \in MonitoringScenarios
  /\ thresholdChecks = NoChecks
  /\ InitPipeline /\ InitPolicyIdle /\ InitAuthIdle /\ InitCleanupIdle /\ InitCacheIdle
  /\ InitLimiterIdle /\ InitErrorsIdle
  /\ InitMiddlewareIdle
  /\ InitListingIdle
  /\ InitSimulatorIdle
  /\ InitExecuteFixIdle
  /\ InitRaceIdle
  /\ InitPolicyOrderIdle
  /\ InitRollbackStepsIdle
  /\ InitProbeIdle
  /\ InitCacheRaceIdle
  /\ InitMonitorIdle
  /\ InitNotifyIdle

\* the sandbox is measured once and the three users of the threshold run on
\* that measurement
ThresholdCheck ==
  /\ ~thresholdChecks.checked
  /\ LET metrics == sandboxMetrics(sandboxHalfMB) IN
     thresholdChecks' =
       [checked |-> TRUE, totalSizeMB |-> metrics.totalSizeMB,
        isOverThreshold |-> isOverThreshold(metrics),
        verifyCleanup |-> verifyCleanup(metrics),
        alerts |-> monitorAlerts(monitoringScenario, metrics)]
  /\ UNCHANGED <<sandboxHalfMB, monitoringScenario>>
  /\ OutsideThreshold

NextThreshold == ThresholdCheck

SpecThreshold == InitThreshold /\ [][NextThreshold]_vars

SandboxAlertRaised(alertList) ==
  \E k \in DOMAIN alertList : alertList[k].alertType = "sandbox_disk_full"

\* C16: on one measurement of the sandbox, isOverThreshold is true exactly when
\* the measured size is at least 100 MB (true at 100, false at 99),
\* verifyCleanup reports success exactly when it is strictly below 100 MB, so
\* exactly one of the two holds, and the scheduler raises a sandbox_disk_full
\* alert exactly when it is at least 100 MB, whatever the primary source reports.
C16_ThresholdBoundary ==
  thresholdChecks.checked =>
    /\ thresholdChecks.isOverThreshold <=> thresholdChecks.totalSizeMB >= 100
    /\ thresholdChecks.totalSizeMB = 100 => thresholdChecks.isOverThreshold
    /\ thresholdChecks.totalSizeMB = 99 => ~thresholdChecks.isOverThreshold
    /\ thresholdChecks.verifyCleanup.success <=> thresholdChecks.totalSizeMB < 100
    /\ thresholdChecks.isOverThreshold # thresholdChecks.verifyCleanup.success
    /\ SandboxAlertRaised(thresholdChecks.alerts) <=> thresholdChecks.totalSizeMB >= 100

\* a sandbox of exactly 100 MB measured while the primary source reports no
\* alert: over the threshold, not verified clean, one sandbox_disk_full alert
C16_Witness ==
  /\ thresholdChecks.checked
  /\ sandboxHalfMB = 200
  /\ monitoringScenario = NoScenario
  /\ thresholdChecks.totalSizeMB = 100
  /\ thresholdChecks.isOverThreshold
  /\ ~thresholdChecks.verifyCleanup.success
  /\ Len(thresholdChecks.alerts) = 1
  /\ SandboxAlertRaised(thresholdChecks.alerts)

(***************************************************************************)
(* State Cache (state-cache.ts).                                           *)
(***************************************************************************)
MaxCacheSize == 2      \* largest maxSize a config names
MaxClock == 2          \* Date.now() advances up to here
MaxCacheOps == 4       \* calls of the cache and writes of the store in one behaviour

CacheKeys == {"incidents:k1", "incidents:k2", "incidents:k3"}
CacheValues == {"a", "b"}
CacheTtls == {1}
CacheConfigs ==
  [ttl : CacheTtls, refreshOnAccess : BOOLEAN, maxSize : 0..MaxCacheSize]

\* accessOrder.indexOf(cacheKey), splice(index, 1)
removeFromAccessOrder(order, cacheKey) ==
  IF \E i \in DOMAIN order : order[i] = cacheKey
  THEN LET index == CHOOSE i \in DOMAIN order :
                      order[i] = cacheKey /\ \A j \in 1..(i - 1) : order[j] # cacheKey
       IN SubSeq(order, 1, index - 1) \o SubSeq(order, index + 1, Len(order))
  ELSE order

\* the key pushed without being removed first
updateAccessOrderPushOnly(order, cacheKey) == Append(order, cacheKey)
\* removeFromAccessOrder(cacheKey), accessOrder.push(cacheKey)
updateAccessOrder(order, cacheKey) ==
  Append(removeFromAccessOrder(order, cacheKey), cacheKey)

\* Map.delete
MapDelete(map, key) == [k \in DOMAIN map \ {key} |-> map[k]]

\* the newest key of the access order taken for the least recently used one
lruKeyNewest(order) == order[Len(order)]
\* const lruKey = this.accessOrder[0]
lruKey(order) == order[1]

\* updateCache: the LRU eviction under maxSize, then the entry with its expiry
updateCache(c, order, cacheKey, value, config, time) ==
  LET evicting == /\ config.maxSize # 0
                  /\ Cardinality(DOMAIN c) >= config.maxSize
                  /\ order # <<>>
      c1 == IF evicting THEN MapDelete(c, lruKey(order)) ELSE c
      o1 == IF evicting THEN Tail(order) ELSE order
  IN [cache |-> Put(c1, cacheKey, [data |-> value, expiresAt |-> time + config.ttl]),
      accessOrder |-> updateAccessOrder(o1, cacheKey)]

\* an entry is served whatever its expiry
isExpiredNever(cached, time) == FALSE
\* now > cached.expiresAt
isExpired(cached, time) == time > cached.expiresAt

\* state.get(group, key)
storeGet(st, key) == IF key \in DOMAIN st THEN st[key] ELSE Null

OutsideCache ==
  UNCHANGED <<pipeVars, polVars, authVars, fsVars, thVars, limVars, errVars,
              mwVars,
              lstVars,
              simVars,
              xfVars,
              raceVars,
              poVars,
              rbVars,
              promVars,
              crVars,
              monVars,
              snVars>>

\* bookkeeping of a first or repeated insertion of key
CacheRecordsInsert(key) ==
  /\ cacheAccess' = Put(cacheAccess, key, cacheOps + 1)
  /\ cacheInserted' = IF key \in SeqRange(cacheInserted) THEN cacheInserted
                      ELSE Append(cacheInserted, key)
  /\ cachePure' = (cachePure /\ key \notin SeqRange(cacheInserted))

\* stateCache.get(state, group, key, config); storeOk: state.get fulfils
CacheGet(key, storeOk) ==
  /\ cacheOps < MaxCacheOps
  /\ cacheOps' = cacheOps + 1
  /\ IF key \in DOMAIN cache /\ ~isExpired(cache[key], now)
     THEN \* cache hit
          /\ accessOrder' = updateAccessOrder(accessOrder, key)
          /\ cache' = IF cacheConfig.refreshOnAccess
                      THEN [cache EXCEPT ![key].expiresAt = now + cacheConfig.ttl]
                      ELSE cache
          /\ lastGet' = [threw |-> FALSE, value |-> cache[key].data, from |-> "cache",
                         expired |-> FALSE]
          /\ cacheAccess' = Put(cacheAccess, key, cacheOps + 1)
          /\ UNCHANGED <<cacheInserted, cachePure>>
     ELSE LET expired == key \in DOMAIN cache
              c1 == IF expired THEN MapDelete(cache, key) ELSE cache
              o1 == IF expired THEN removeFromAccessOrder(accessOrder, key)
                    ELSE accessOrder
              data == storeGet(store, key)
          IN
          IF ~storeOk
          THEN /\ cache' = c1
               /\ accessOrder' = o1
               /\ lastGet' = [threw |-> TRUE, value |-> Null, from |-> "store",
                              expired |-> expired]
               /\ cachePure' = (cachePure /\ ~expired)
               /\ UNCHANGED <<cacheAccess, cacheInserted>>
          ELSE IF data # Null
          THEN LET u == updateCache(c1, o1, key, data, cacheConfig, now) IN
               /\ cache' = u.cache
               /\ accessOrder' = u.accessOrder
               /\ lastGet' = [threw |-> FALSE, value |-> data, from |-> "store",
                              expired |-> expired]
               /\ CacheRecordsInsert(key)
          ELSE /\ cache' = c1
               /\ accessOrder' = o1
               /\ lastGet' = [threw |-> FALSE, value |-> Null, from |-> "store",
                              expired |-> expired]
               /\ cachePure' = (cachePure /\ ~expired)
               /\ UNCHANGED <<cacheAccess, cacheInserted>>
  /\ UNCHANGED <<store, now, cacheConfig>>
  /\ OutsideCache

\* stateCache.set(state, group, key, value, config); storeOk: state.set fulfils
CacheSet(key, value, storeOk) ==
  /\ cacheOps < MaxCacheOps
  /\ cacheOps' = cacheOps + 1
  /\ IF storeOk
     THEN LET u == updateCache(cache, accessOrder, key, value, cacheConfig, now) IN
          /\ store' = Put(store, key, value)
          /\ cache' = u.cache
          /\ accessOrder' = u.accessOrder
          /\ CacheRecordsInsert(key)
     ELSE UNCHANGED <<store, cache, accessOrder, cacheAccess, cacheInserted, cachePure>>
  /\ UNCHANGED <<now, cacheConfig, lastGet>>
  /\ OutsideCache

\* stateCache.invalidate(group, key)
CacheInvalidate(key) ==
  /\ cacheOps < MaxCacheOps
  /\ cacheOps' = cacheOps + 1
  /\ key \in DOMAIN cache
  /\ cache' = MapDelete(cache, key)
  /\ accessOrder' = removeFromAccessOrder(accessOrder, key)
  /\ cachePure' = FALSE
  /\ UNCHANGED <<store, now, cacheConfig, lastGet, cacheAccess, cacheInserted>>
  /\ OutsideCache

\* state.set(group, key, value) by a writer that does not go through the cache
StoreSet(key, value) ==
  /\ cacheOps < MaxCacheOps
  /\ cacheOps' = cacheOps + 1
  /\ storeGet(store, key) # value
  /\ store' = Put(store, key, value)
  /\ UNCHANGED <<cache, accessOrder, now, cacheConfig, lastGet, cacheAccess,
                 cacheInserted, cachePure>>
  /\ OutsideCache

\* the clock advances
ClockTick ==
  /\ now < MaxClock
  /\ now' = now + 1
  /\ UNCHANGED <<cache, accessOrder, store, cacheConfig, lastGet, cacheOps,
                 cacheAccess, cacheInserted, cachePure>>
  /\ OutsideCache

NextCache ==
  \/ \E key \in CacheKeys, storeOk \in BOOLEAN : CacheGet(key, storeOk)
  \/ \E key \in CacheKeys, value \in CacheValues, storeOk \in BOOLEAN :
       CacheSet(key, value, storeOk)
  \/ \E key \in CacheKeys : CacheInvalidate(key)
  \/ \E key \in CacheKeys, value \in CacheValues : StoreSet(key, value)
  \/ ClockTick

InitCache ==
  /\ cache = <<>>
  /\ accessOrder = <<>>
  /\ store = <<>>
  /\ now = 0
  /\ cacheConfig \in CacheConfigs
  /\ lastGet = NoGet
  /\ cacheOps = 0
  /\ cacheAccess = <<>>
  /\ cacheInserted = <<>>
  /\ cachePure = TRUE
  /\ InitPipeline /\ InitPolicyIdle /\ InitAuthIdle /\ InitCleanupIdle
  /\ InitThresholdIdle /\ InitLimiterIdle /\ InitErrorsIdle
  /\ InitMiddlewareIdle
  /\ InitListingIdle
  /\ InitSimulatorIdle
  /\ InitExecuteFixIdle
  /\ InitRaceIdle
  /\ InitPolicyOrderIdle
  /\ InitRollbackStepsIdle
  /\ InitProbeIdle
  /\ InitCacheRaceIdle
  /\ InitMonitorIdle
  /\ InitNotifyIdle

SpecCache == InitCache /\ [][NextCache]_vars

\* exactly one of the inserted keys is gone from the cache, every other
\* inserted key is cached, and the one gone was accessed (by a set, a caching
\* miss or a get hit) before each of the others
OneLruKeyEvicted ==
  \E victim \in SeqRange(cacheInserted) :
    /\ DOMAIN cache = SeqRange(cacheInserted) \ {victim}
    /\ \A k \in DOMAIN cache : cacheAccess[victim] < cacheAccess[k]

\* C17 as stated: with maxSize = N, once N+1 distinct keys have been inserted
\* (get hits in between allowed, nothing invalidated or expired away), exactly
\* one key has been evicted, it is the least recently accessed one, and the
\* other N keys are all cached -- for every N a config can name, 0 included.
C17_LruEvictionAsStated ==
  (cachePure /\ Len(cacheInserted) = cacheConfig.maxSize + 1) => OneLruKeyEvicted

\* C17: with maxSize = N >= 1, once N+1 distinct keys have been inserted (get
\* hits in between allowed), exactly one key has been evicted, it is the key
\* least recently accessed by a set or a get hit, and the other N keys are
\* all still cached.
C17_LruEviction ==
  (cachePure /\ cacheConfig.maxSize >= 1
     /\ Len(cacheInserted) = cacheConfig.maxSize + 1) => OneLruKeyEvicted

\* maxSize 2, three keys inserted with a get hit on the first one in between:
\* the second key inserted is the one evicted
C17_Witness ==
  /\ cachePure
  /\ cacheConfig.maxSize = 2
  /\ Len(cacheInserted) = 3
  /\ lastGet.from = "cache"
  /\ DOMAIN cache = {cacheInserted[1], cacheInserted[3]}
  /\ accessOrder = << cacheInserted[1], cacheInserted[3] >>

\* C18: a State Cache get of an entry whose expiry time has passed is a miss:
\* the entry is removed from the cache and from the access order, the store is
\* read, and when the read fulfils the store's value is returned and cached
\* again exactly when it is not null; the expired cached value is never
\* returned from the cache.
C18_ExpiredGetIsMiss ==
  [][\A key \in CacheKeys, storeOk \in BOOLEAN :
       (/\ key \in DOMAIN cache
        /\ now > cache[key].expiresAt
        /\ CacheGet(key, storeOk))
       => /\ lastGet'.from = "store"
          /\ lastGet'.expired
          /\ lastGet'.threw = ~storeOk
          /\ storeOk => lastGet'.value = storeGet(store, key)
          /\ IF storeOk /\ storeGet(store, key) # Null
             THEN /\ key \in DOMAIN cache'
                  /\ cache'[key] = [data |-> storeGet(store, key),
                                    expiresAt |-> now + cacheConfig.ttl]
                  /\ accessOrder' =
                       Append(removeFromAccessOrder(accessOrder', key), key)
             ELSE /\ key \notin DOMAIN cache'
                  /\ key \notin SeqRange(accessOrder')]_vars

\* a get found its entry expired, read the store and cached the store's value
\* with a fresh expiry, at a time where the old entry's ttl had run out
C18_Witness ==
  /\ lastGet.expired
  /\ ~lastGet.threw
  /\ lastGet.from = "store"
  /\ lastGet.value # Null
  /\ now > cacheConfig.ttl
  /\ \E key \in DOMAIN cache :
       /\ cache[key] = [data |-> lastGet.value, expiresAt |-> now + cacheConfig.ttl]
       /\ accessOrder[Len(accessOrder)] = key


(***************************************************************************)
(* rateLimit (part_008).                                                   *)
(***************************************************************************)
MaxLimTicks == 4       \* the clock advances this many times
MaxLimCalls == 5       \* requests in one behaviour
MaxRequests == 2       \* largest maxRequests a limiter is built with
LimTick == 500         \* ms the clock advances by between requests

LimWindows == {1000, 1500}
LimConfigs == [maxRequests : 0..MaxRequests, windowMs : LimWindows]
ForwardedFor == "10.0.0.1"
\* a request: the key authMiddleware accepted ("" when no user is attached)
\* and the x-forwarded-for header ("" when absent)
LimRequests == [key : {"", AdminKey, OperatorKey}, xForwardedFor : {"", ForwardedFor}]

\* apiKey.substring(0, 10) + '...'
redactedApiKey(key) ==
  CASE key = AdminKey -> "sk-sentina..."
    [] key = OperatorKey -> "sk-sentina..."
    [] key = ViewerKey -> "sk-sentina..."

\* user?.apiKey || req.headers?.['x-forwarded-for'] || 'anonymous'
identifier(req) ==
  IF req.key # "" THEN redactedApiKey(req.key)
  ELSE IF req.xForwardedFor # "" THEN req.xForwardedFor
  ELSE "anonymous"

LimIdentifiers == {identifier(req) : req \in LimRequests}

\* Math.ceil(a / b) for a >= 0
ceilDiv(a, b) == (a + b - 1) \div b

\* the window is over from its reset time on
windowOverAtReset(limitData, time) == time >= limitData.resetAt
\* now > limitData.resetAt
windowOver(limitData, time) == time > limitData.resetAt

\* what next() returns stands as status 200
passedOn == [status |-> 200, passed |-> TRUE, retryAfter |-> -1]
tooManyRequests(resetAt, time) ==
  [status |-> 429, passed |-> FALSE, retryAfter |-> ceilDiv(resetAt - time, 1000)]

OutsideLimiter ==
  UNCHANGED <<pipeVars, polVars, authVars, fsVars, thVars, cacheVars, errVars,
              mwVars,
              lstVars,
              simVars,
              xfVars,
              raceVars,
              poVars,
              rbVars,
              promVars,
              crVars,
              monVars,
              snVars>>

\* the middleware rateLimit(maxRequests, windowMs) on one request
RateLimit(req) ==
  /\ Len(limLog) < MaxLimCalls
  /\ LET id == identifier(req)
         fresh == \/ id \notin DOMAIN rateLimitStore
                  \/ windowOver(rateLimitStore[id], limNow)
         count == IF fresh THEN 1 ELSE rateLimitStore[id].count + 1
         resetAt == IF fresh THEN limNow + limConfig.windowMs
                    ELSE rateLimitStore[id].resetAt
         resp == IF ~fresh /\ count > limConfig.maxRequests
                 THEN tooManyRequests(resetAt, limNow)
                 ELSE passedOn
     IN /\ rateLimitStore' = Put(rateLimitStore, id, [count |-> count, resetAt |-> resetAt])
        /\ limResp' = resp
        /\ limLog' = Append(limLog, [identifier |-> id, at |-> limNow, resp |-> resp])
  /\ UNCHANGED <<limNow, limConfig>>
  /\ OutsideLimiter

\* time passes between two requests
LimClockTick ==
  /\ limNow < MaxLimTicks * LimTick
  /\ limNow' = limNow + LimTick
  /\ UNCHANGED <<rateLimitStore, limConfig, limResp, limLog>>
  /\ OutsideLimiter

NextLimiter ==
  \/ \E req \in LimRequests : RateLimit(req)
  \/ LimClockTick

InitLimiter ==
  /\ rateLimitStore = <<>>
  /\ limNow = 0
  /\ limConfig \in LimConfigs
  /\ limResp = NoLimResp
  /\ limLog = <<>>
  /\ InitPipeline /\ InitPolicyIdle /\ InitAuthIdle /\ InitCleanupIdle
  /\ InitThresholdIdle /\ InitCacheIdle /\ InitErrorsIdle
  /\ InitMiddlewareIdle
  /\ InitListingIdle
  /\ InitSimulatorIdle
  /\ InitExecuteFixIdle
  /\ InitRaceIdle
  /\ InitPolicyOrderIdle
  /\ InitRollbackStepsIdle
  /\ InitProbeIdle
  /\ InitCacheRaceIdle
  /\ InitMonitorIdle
  /\ InitNotifyIdle

SpecLimiter == InitLimiter /\ [][NextLimiter]_vars

\* the requests of one identifier, in the order they came
LogOf(id) ==
  LET ofId(e) == e.identifier = id IN SelectSeq(limLog, ofId)

\* s: the requests of one identifier; i: the request looked at; start: the
\* time of the request that opened the current window; n: the requests of
\* that window before request i.  The first request, and the first one later
\* than start + windowMs, opens a window and is passed on; within a window the
\* requests up to maxRequests are passed on and every further one gets 429
\* with a Retry-After header and is not passed on.
RECURSIVE WindowsRespected(_, _, _, _)
WindowsRespected(s, i, start, n) ==
  IF i > Len(s) THEN TRUE
  ELSE IF i = 1 \/ s[i].at > start + limConfig.windowMs
  THEN /\ s[i].resp.passed
       /\ WindowsRespected(s, i + 1, s[i].at, 1)
  ELSE /\ IF n < limConfig.maxRequests
          THEN s[i].resp.passed
          ELSE /\ ~s[i].resp.passed
               /\ s[i].resp.status = 429
               /\ s[i].resp.retryAfter >= 0
       /\ WindowsRespected(s, i + 1, start, n + 1)

\* C19: for every identifier and every fixed window of a rate limiter with
\* maxRequests >= 1, at most maxRequests requests are passed on to the next
\* handler; every further request of that window is answered 429 with a
\* Retry-After header and is not passed on; the first request after the
\* window's reset time starts a new window.
C19_RateLimitWindows ==
  limConfig.maxRequests >= 1 =>
    \A id \in LimIdentifiers : WindowsRespected(LogOf(id), 1, 0, 0)

\* two requests of one identifier passed on, the third of the window refused
\* with Retry-After 1, a fourth at the reset time still refused (Retry-After
\* 0), and the first one after the reset time passed on in a new window
C19_Witness ==
  /\ limConfig = [maxRequests |-> 2, windowMs |-> 1000]
  /\ Len(limLog) = 5
  /\ \A i \in 1..5 : limLog[i].identifier = "sk-sentina..."
  /\ limLog[1].resp.passed /\ limLog[2].resp.passed
  /\ limLog[3].resp = [status |-> 429, passed |-> FALSE, retryAfter |-> 1]
  /\ limLog[4].at = limLog[1].at + 1000
  /\ limLog[4].resp = [status |-> 429, passed |-> FALSE, retryAfter |-> 0]
  /\ limLog[5].at > limLog[1].at + 1000
  /\ limLog[5].resp.passed
  /\ rateLimitStore["sk-sentina..."] = [count |-> 1, resetAt |-> limLog[5].at + 1000]


(***************************************************************************)
(* The typed errors (sentinal-errors.ts).                                  *)
(***************************************************************************)
\* the classes whose constructor takes a free-form context
ContextErrorKinds ==
  {"MonitoringError", "AlertDetectionError", "MetricsCollectionError",
   "AIError", "LLMError", "StateError", "StateCacheError", "RemediationError",
   "IntegrationError"}
\* the classes whose constructor builds the context from its own arguments
FixedErrorKinds ==
  {"LLMTimeoutError", "LLMQuotaExceededError", "RCAParsingError",
   "RollbackError", "PrometheusError", "SlackError", "ValidationError",
   "ConfigurationError"}
\* values that are no SentinalError: an Error, a string, null, and a plain
\* object that carries recoverable: true
UntypedValues == {"Error", "string", "null", "object"}

\* contexts a caller passes: none, the one state-cache.ts passes, and records
\* that name recoverable themselves
ErrorContexts ==
  {NoContext, [operation |-> "get"], [recoverable |-> TRUE],
   [recoverable |-> FALSE]}

ErrorInputs ==
  [kind : ContextErrorKinds, context : ErrorContexts]
    \cup [kind : FixedErrorKinds \cup UntypedValues, context : {NoContext}]

\* { ...context, fields }: the fields written after the spread win
Spread(context, fields) == fields @@ context

\* new SentinalError(message, options)
SentinalErrorNew(kind, options) ==
  [kind |-> kind,
   typed |-> TRUE,
   context |-> IF "context" \in DOMAIN options THEN options["context"]
               ELSE NoContext,
   recoverable |-> IF "recoverable" \in DOMAIN options
                   THEN options["recoverable"] ELSE FALSE]

MonitoringErrorNew(kind, context) ==
  SentinalErrorNew(kind, [context |-> context, recoverable |-> TRUE])
AlertDetectionErrorNew(context) == MonitoringErrorNew("AlertDetectionError", context)
MetricsCollectionErrorNew(context) ==
  MonitoringErrorNew("MetricsCollectionError",
                     Spread(context, [source |-> "prometheus"]))

AIErrorNew(kind, context) ==
  SentinalErrorNew(kind, [context |-> context, recoverable |-> TRUE])
LLMErrorNew(kind, context) == AIErrorNew(kind, context)
LLMTimeoutErrorNew == LLMErrorNew("LLMTimeoutError", [timeoutMs |-> 30000])
LLMQuotaExceededErrorNew ==
  LLMErrorNew("LLMQuotaExceededError", [quotaType |-> "tokens"])
RCAParsingErrorNew == AIErrorNew("RCAParsingError", [rawResponseLength |-> 0])

\* the context is spread into the options object itself
StateErrorNew(kind, context) ==
  SentinalErrorNew(kind, Spread(context, [stateGroup |-> "incidents", key |-> "k1"]))
StateCacheErrorNew(context) == StateErrorNew("StateCacheError", context)

\* this.recoverable = false after super(...)
RemediationErrorNew(context) ==
  [SentinalErrorNew("RemediationError",
                    Spread(context, [incidentId |-> "alert-1",
                                     alertType |-> "high_memory"]))
     EXCEPT !.recoverable = FALSE]

RollbackErrorNew ==
  SentinalErrorNew("RollbackError",
                   [incidentId |-> "alert-1", recoverable |-> FALSE,
                    cause |-> "Error"])

IntegrationErrorNew(kind, service, context) ==
  SentinalErrorNew(kind, Spread(context, [service |-> service, recoverable |-> TRUE]))
PrometheusErrorNew == IntegrationErrorNew("PrometheusError", "Prometheus", [query |-> "up"])
SlackErrorNew == IntegrationErrorNew("SlackError", "Slack", [channel |-> "#incidents"])

ValidationErrorNew ==
  SentinalErrorNew("ValidationError",
                   [field |-> "action", value |-> "maybe", recoverable |-> TRUE])
ConfigurationErrorNew ==
  SentinalErrorNew("ConfigurationError",
                   [configKey |-> "SLACK_WEBHOOK_URL", recoverable |-> FALSE])

\* the value a throw site produces from its input
errorOf(input) ==
  CASE input.kind = "MonitoringError" -> MonitoringErrorNew("MonitoringError", input.context)
    [] input.kind = "AlertDetectionError" -> AlertDetectionErrorNew(input.context)
    [] input.kind = "MetricsCollectionError" -> MetricsCollectionErrorNew(input.context)
    [] input.kind = "AIError" -> AIErrorNew("AIError", input.context)
    [] input.kind = "LLMError" -> LLMErrorNew("LLMError", input.context)
    [] input.kind = "LLMTimeoutError" -> LLMTimeoutErrorNew
    [] input.kind = "LLMQuotaExceededError" -> LLMQuotaExceededErrorNew
    [] input.kind = "RCAParsingError" -> RCAParsingErrorNew
    [] input.kind = "StateError" -> StateErrorNew("StateError", input.context)
    [] input.kind = "StateCacheError" -> StateCacheErrorNew(input.context)
    [] input.kind = "RemediationError" -> RemediationErrorNew(input.context)
    [] input.kind = "RollbackError" -> RollbackErrorNew
    [] input.kind = "IntegrationError" ->
         IntegrationErrorNew("IntegrationError", "Docker", input.context)
    [] input.kind = "PrometheusError" -> PrometheusErrorNew
    [] input.kind = "SlackError" -> SlackErrorNew
    [] input.kind = "ValidationError" -> ValidationErrorNew
    [] input.kind = "ConfigurationError" -> ConfigurationErrorNew
    [] OTHER -> [kind |-> input.kind, typed |-> FALSE, context |-> NoContext,
                 recoverable |-> (input.kind = "object")]

\* error instanceof SentinalError ? error.recoverable : false
isRecoverableError(error) == IF error.typed THEN error.recoverable ELSE FALSE

OutsideErrors ==
  UNCHANGED <<pipeVars, polVars, authVars, fsVars, thVars, cacheVars, limVars,
              mwVars,
              lstVars,
              simVars,
              xfVars,
              raceVars,
              poVars,
              rbVars,
              promVars,
              crVars,
              monVars,
              snVars>>

\* the error is constructed
ErrorConstruct ==
  /\ errThrown.kind = "none"
  /\ errThrown' = errorOf(errInput)
  /\ UNCHANGED <<errInput, errChecked>>
  /\ OutsideErrors

\* isRecoverableError(error) on what was thrown
ErrorCheck ==
  /\ errThrown.kind # "none"
  /\ ~errChecked.checked
  /\ errChecked' = [checked |-> TRUE, isRecoverable |-> isRecoverableError(errThrown)]
  /\ UNCHANGED <<errInput, errThrown>>
  /\ OutsideErrors

NextErrors == ErrorConstruct \/ ErrorCheck

InitErrors ==
  /\ errInput \in ErrorInputs
  /\ errThrown = NoError
  /\ errChecked = NoErrorCheck
  /\ InitPipeline /\ InitPolicyIdle /\ InitAuthIdle /\ InitCleanupIdle
  /\ InitThresholdIdle /\ InitCacheIdle /\ InitLimiterIdle
  /\ InitMiddlewareIdle
  /\ InitListingIdle
  /\ InitSimulatorIdle
  /\ InitExecuteFixIdle
  /\ InitRaceIdle
  /\ InitPolicyOrderIdle
  /\ InitRollbackStepsIdle
  /\ InitProbeIdle
  /\ InitCacheRaceIdle
  /\ InitMonitorIdle
  /\ InitNotifyIdle

SpecErrors == InitErrors /\ [][NextErrors]_vars

\* the kinds the statement calls recoverable and not recoverable
RecoverableKinds ==
  {"MonitoringError", "AlertDetectionError", "MetricsCollectionError",
   "AIError", "LLMError", "LLMTimeoutError", "LLMQuotaExceededError",
   "RCAParsingError", "StateCacheError", "IntegrationError", "PrometheusError",
   "SlackError"}
NonRecoverableKinds == {"RemediationError", "RollbackError", "ConfigurationError"}

\* C20: the recoverable flag of every typed error is fixed by its kind:
\* monitoring, AI/LLM, state-cache and integration errors are recoverable;
\* remediation, rollback and configuration errors are not; isRecoverableError
\* returns that flag for a typed error and false for any other value.
C20_RecoverableByKind ==
  /\ errThrown.kind \in RecoverableKinds => errThrown.recoverable
  /\ errThrown.kind \in NonRecoverableKinds => ~errThrown.recoverable
  /\ errChecked.checked =>
       errChecked.isRecoverable = (errThrown.typed /\ errThrown.recoverable)


(***************************************************************************)
(* core.middleware.ts and error-handler.middleware.ts: what a chain        *)
(* returns for a request.  A response is [status, headers, body, message]: *)
(* headers is the set of header lines, body the set of the body's field    *)
(* names, message tells where the body's message comes from.               *)
(***************************************************************************)
\* what the endpoint handler does once the chain lets the request through:
\* it answers (without or with headers of its own) or throws a ZodError, a
\* typed error, an Error whose message holds 'not found' or 'forbidden', any
\* other Error, or a value that is no Error
HandlerOutcomes ==
  {"ok", "okWithHeaders", "ZodError", "SentinalError", "Error:not found",
   "Error:forbidden", "Error", "string"}
MwChains == {"core", "errorHandler"}
NodeEnvs == {"development", "production"}
MwInputs ==
  [chain : MwChains, req : PipelineRequests, required : UserRoles,
   outcome : HandlerOutcomes, nodeEnv : NodeEnvs]

response(status, headers, body, message) ==
  [done |-> TRUE, status |-> status, headers |-> headers, body |-> body,
   message |-> message]

\* the handler's own response
handlerResponse(outcome) ==
  IF outcome = "okWithHeaders"
  THEN response(200, {"Content-Type: application/json"}, {"success", "data"}, "none")
  ELSE response(200, {}, {"success", "data"}, "none")

\* the typed error a handler throws: the one state-cache.ts throws
thrownSentinalError ==
  errorOf([kind |-> "StateCacheError", context |-> [operation |-> "get"]])

\* SentinalError.toJSON(); a context that is undefined is left out of the JSON
toJSON(error) ==
  {"name", "message", "timestamp", "recoverable", "stack"}
    \cup (IF DOMAIN error.context = {} THEN {} ELSE {"context"})

\* the 401, 403 and 500 answers of authMiddleware and requireRole
authResponse(status) == response(status, {}, {"error", "message"}, "fixed")

SecurityHeaders ==
  {"X-Content-Type-Options: nosniff", "X-Frame-Options: DENY",
   "X-XSS-Protection: 1; mode=block"}

\* response.headers[...] = ... on what next() returned
withSecurityHeaders(resp) == [resp EXCEPT !.headers = @ \cup SecurityHeaders]

\* the catch block of coreMiddleware
coreCatch(outcome) ==
  CASE outcome = "ZodError" ->
         response(400, {}, {"error", "message", "details"}, "fixed")
    [] outcome = "SentinalError" ->
         response(500, {}, toJSON(thrownSentinalError), "error.message")
    [] OTHER -> response(500, {}, {"error", "message"}, "fixed")

\* the chain [coreMiddleware, authMiddleware, requireRole(required)] and the
\* handler behind it
coreMiddleware(input) ==
  LET gate == protectWith(input.req, input.required) IN
  IF ~gate.next THEN withSecurityHeaders(authResponse(gate.status))
  ELSE IF input.outcome \in {"ok", "okWithHeaders"}
  THEN withSecurityHeaders(handlerResponse(input.outcome))
  ELSE coreCatch(input.outcome)

\* the chain [requestLogger, errorHandler] and the handler behind it;
\* requestLogger returns what errorHandler returns
errorHandler(input) ==
  CASE input.outcome \in {"ok", "okWithHeaders"} -> handlerResponse(input.outcome)
    [] input.outcome = "ZodError" -> response(400, {}, {"error", "details"}, "none")
    [] input.outcome = "Error:not found" ->
         response(404, {}, {"error", "message"}, "error.message")
    [] input.outcome = "Error:forbidden" ->
         response(403, {}, {"error", "message"}, "error.message")
    [] input.outcome \in {"Error", "SentinalError"} ->
         response(500, {}, {"error", "message"},
                  IF input.nodeEnv = "development" THEN "error.message" ELSE "fixed")
    [] OTHER -> response(500, {}, {"error", "message"}, "fixed")

OutsideMiddleware ==
  UNCHANGED <<pipeVars, polVars, authVars, fsVars, thVars, cacheVars, limVars,
              errVars,
              lstVars,
              simVars,
              xfVars,
              raceVars,
              poVars,
              rbVars,
              promVars,
              crVars,
              monVars,
              snVars>>

\* a request to an endpoint behind the core chain
CoreRequest ==
  /\ ~mwResp.done
  /\ mwInput.chain = "core"
  /\ mwResp' = coreMiddleware(mwInput)
  /\ UNCHANGED mwInput
  /\ OutsideMiddleware

\* a request to an endpoint behind [requestLogger, errorHandler]
ErrorHandlerRequest ==
  /\ ~mwResp.done
  /\ mwInput.chain = "errorHandler"
  /\ mwResp' = errorHandler(mwInput)
  /\ UNCHANGED mwInput
  /\ OutsideMiddleware

NextMiddleware == CoreRequest \/ ErrorHandlerRequest

InitMiddleware ==
  /\ mwInput \in MwInputs
  /\ mwResp = NoMwResp
  /\ InitPipeline /\ InitPolicyIdle /\ InitAuthIdle /\ InitCleanupIdle
  /\ InitThresholdIdle /\ InitCacheIdle /\ InitLimiterIdle /\ InitErrorsIdle
  /\ InitListingIdle
  /\ InitSimulatorIdle
  /\ InitExecuteFixIdle
  /\ InitRaceIdle
  /\ InitPolicyOrderIdle
  /\ InitRollbackStepsIdle
  /\ InitProbeIdle
  /\ InitCacheRaceIdle
  /\ InitMonitorIdle
  /\ InitNotifyIdle

SpecMiddleware == InitMiddleware /\ [][NextMiddleware]_vars

\* C21: outside development mode, every failure response body the middleware
\* layer produces (for a typed domain error, a validation error or an untyped
\* error) holds no stack trace and has the shape {error, message, details?}.
C21_FailureBodyShape ==
  (mwResp.done /\ mwResp.status >= 400 /\ mwInput.nodeEnv # "development") =>
    /\ "stack" \notin mwResp.body
    /\ {"error", "message"} \subseteq mwResp.body
    /\ mwResp.body \subseteq {"error", "message", "details"}

\* C22: every response returned through the core wrapper carries the three
\* security headers: the handler's own responses, the 401/403 responses of the
\* inner authentication and role stages, and the 400/500 responses the wrapper
\* builds from a thrown failure.
C22_SecurityHeadersAlways ==
  (mwResp.done /\ mwInput.chain = "core") => SecurityHeaders \subseteq mwResp.headers


(***************************************************************************)
(* The pending-approval listings: list-pending-approvals.step.ts (ungated) *)
(* and listPendingHandler of manual-approval.step.ts (behind the viewer    *)
(* gate).                                                                  *)
(***************************************************************************)
MaxApprovals == 3      \* records in state group approval-pending
MaxRequestedAt == 2    \* requestedAt takes the values 1..MaxRequestedAt

ApprovalStatuses == {"pending", "approved", "rejected"}
ListingIds == {idOf(n) : n \in 1..MaxApprovals}
ListingRecords ==
  [incidentId : ListingIds, status : ApprovalStatuses,
   requestedAt : 1..MaxRequestedAt, rcaSummary : {"", "Memory leak in api-server"}]

\* contents of the group: at most one record per incident, in any order
ListingGroups ==
  {g \in UNION {[1..n -> ListingRecords] : n \in 0..MaxApprovals} :
     \A i, j \in DOMAIN g : i # j => g[i].incidentId # g[j].incidentId}

\* .filter((approval) => approval.status === 'pending')
filterPending(group) ==
  LET isPending(approval) == approval.status = "pending" IN SelectSeq(group, isPending)

\* Array.prototype.sort with (a, b) => b.requestedAt - a.requestedAt: stable,
\* the most recent first
RECURSIVE sortMostRecentFirst(_)
sortMostRecentFirst(list) ==
  IF list = <<>> THEN <<>>
  ELSE LET newest == CHOOSE i \in DOMAIN list :
                       /\ \A j \in DOMAIN list : list[j].requestedAt <= list[i].requestedAt
                       /\ \A j \in 1..(i - 1) : list[j].requestedAt < list[i].requestedAt
       IN <<list[newest]>> \o
          sortMostRecentFirst(SubSeq(list, 1, newest - 1)
                                \o SubSeq(list, newest + 1, Len(list)))

\* rcaSummary: approval.rcaSummary || 'N/A'
orNA(text) == IF text = "" THEN "N/A" ELSE text

\* handler of list-pending-approvals.step.ts: body.pending
listPending(group) ==
  LET pending == filterPending(group)
      mapped == [i \in DOMAIN pending |->
                   [pending[i] EXCEPT !.rcaSummary = orNA(pending[i].rcaSummary)]]
  IN sortMostRecentFirst(mapped)

\* listPendingHandler of manual-approval.step.ts: body.pending
listPendingHandler(group) == filterPending(group)

OutsideListing ==
  UNCHANGED <<pipeVars, polVars, authVars, fsVars, thVars, cacheVars, limVars,
              errVars, mwVars,
              simVars,
              xfVars,
              raceVars,
              poVars,
              rbVars,
              promVars,
              crVars,
              monVars,
              snVars>>

\* both endpoints are asked on the same content of the group
ListBoth ==
  /\ ~lstResult.done
  /\ lstResult' = [done |-> TRUE, ungated |-> listPending(lstGroup),
                   gated |-> listPendingHandler(lstGroup)]
  /\ UNCHANGED lstGroup
  /\ OutsideListing

NextListing == ListBoth

InitListing ==
  /\ lstGroup \in ListingGroups
  /\ lstResult = NoListingResult
  /\ InitPipeline /\ InitPolicyIdle /\ InitAuthIdle /\ InitCleanupIdle
  /\ InitThresholdIdle /\ InitCacheIdle /\ InitLimiterIdle /\ InitErrorsIdle
  /\ InitMiddlewareIdle
  /\ InitSimulatorIdle
  /\ InitExecuteFixIdle
  /\ InitRaceIdle
  /\ InitPolicyOrderIdle
  /\ InitRollbackStepsIdle
  /\ InitProbeIdle
  /\ InitCacheRaceIdle
  /\ InitMonitorIdle
  /\ InitNotifyIdle

SpecListing == InitListing /\ [][NextListing]_vars

\* a listing names exactly the incidents whose record is pending, each once,
\* the most recently requested first
PendingMostRecentFirst(list) ==
  /\ {list[i].incidentId : i \in DOMAIN list}
       = {lstGroup[i].incidentId : i \in {j \in DOMAIN lstGroup : lstGroup[j].status = "pending"}}
  /\ \A i, j \in DOMAIN list : i # j => list[i].incidentId # list[j].incidentId
  /\ \A i \in DOMAIN list : list[i].status = "pending"
  /\ \A i, j \in DOMAIN list : i < j => list[i].requestedAt >= list[j].requestedAt

\* C23: for every content of state group approval-pending, the ungated and
\* the role-gated listing return the same list: exactly the records whose
\* status is pending, ordered by requestedAt with the most recent first.
C23_ListingsAgree ==
  lstResult.done =>
    /\ lstResult.ungated = lstResult.gated
    /\ PendingMostRecentFirst(lstResult.ungated)
    /\ PendingMostRecentFirst(lstResult.gated)


(***************************************************************************)
(* The simulator's scenario calls (infrastructure-simulator.ts):           *)
(* triggerScenario, clearScenario and what a collection sees after them.   *)
(***************************************************************************)
MaxSimCalls == 3       \* triggerScenario and clearScenario calls in a run

\* triggerScenario(scenario) at time now
triggerScenario(sim, scenario, startTime) ==
  [sim EXCEPT !.scenarioActive = scenario, !.scenarioStartTime = startTime]

clearScenarioKeepsScenario(sim) == [sim EXCEPT !.scenarioStartTime = 0]
\* clearScenario()
clearScenario(sim) ==
  [sim EXCEPT !.scenarioActive = NoScenario, !.scenarioStartTime = 0]

OutsideSimulator ==
  UNCHANGED <<pipeVars, polVars, authVars, fsVars, thVars, cacheVars, limVars,
              errVars, mwVars, lstVars,
              xfVars,
              raceVars,
              poVars,
              rbVars,
              promVars,
              crVars,
              monVars,
              snVars>>

\* Date.now() is later at every call
SimTrigger(scenario) ==
  /\ Len(simCalls) < MaxSimCalls
  /\ simulator' = triggerScenario(simulator, scenario, Len(simCalls) + 1)
  /\ simCalls' = Append(simCalls, scenario)
  /\ UNCHANGED simSeen
  /\ OutsideSimulator

SimTriggerAny == \E scenario \in AlertTypes : SimTrigger(scenario)

SimClear ==
  /\ Len(simCalls) < MaxSimCalls
  /\ simulator' = clearScenario(simulator)
  /\ simCalls' = Append(simCalls, "clear")
  /\ UNCHANGED simSeen
  /\ OutsideSimulator

\* collectMetrics(), performHealthChecks(metrics), detectAlerts(healthChecks)
SimCollect ==
  /\ simSeen.calls # simCalls \/ ~simSeen.done
  /\ LET metrics == collectMetrics(simulator.scenarioActive)
         healthChecks == performHealthChecks(metrics)
     IN simSeen' = [done |-> TRUE, calls |-> simCalls, metrics |-> metrics,
                    healthChecks |-> healthChecks,
                    alerts |-> detectAlerts(healthChecks)]
  /\ UNCHANGED <<simulator, simCalls>>
  /\ OutsideSimulator

NextSimulator == SimTriggerAny \/ SimClear \/ SimCollect

InitSimulator ==
  /\ InitSimulatorIdle
  /\ InitPipeline /\ InitPolicyIdle /\ InitAuthIdle /\ InitCleanupIdle
  /\ InitThresholdIdle /\ InitCacheIdle /\ InitLimiterIdle /\ InitErrorsIdle
  /\ InitMiddlewareIdle /\ InitListingIdle
  /\ InitExecuteFixIdle
  /\ InitRaceIdle
  /\ InitPolicyOrderIdle
  /\ InitRollbackStepsIdle
  /\ InitProbeIdle
  /\ InitCacheRaceIdle
  /\ InitMonitorIdle
  /\ InitNotifyIdle

SpecSimulator == InitSimulator /\ [][NextSimulator]_vars

\* the collection shows the baseline: memory at 25 percent, every check
\* healthy, no alert
SeenBaseline ==
  /\ simSeen.metrics = baselineMetrics
  /\ simSeen.metrics.memory.percentage = 25
  /\ \A k \in DOMAIN simSeen.healthChecks : simSeen.healthChecks[k].status = "healthy"
  /\ simSeen.alerts = <<>>

\* the last call before the collection was clearScenario() and the call
\* before it triggerScenario(s)
SeenAfterTriggerThenClear ==
  /\ simSeen.done
  /\ Len(simSeen.calls) >= 2
  /\ simSeen.calls[Len(simSeen.calls)] = "clear"
  /\ simSeen.calls[Len(simSeen.calls) - 1] \in AlertTypes

\* C24: with no scenario ever triggered the simulator's metrics are the
\* baseline (memory.percentage 25), every health check is healthy and
\* detectAlerts is empty; right after triggerScenario(high_memory)
\* memory.percentage is 80; and for every scenario s, triggerScenario(s)
\* followed by clearScenario() restores the baseline metrics and the empty
\* alert list.
C24_ScenarioRoundTrip ==
  /\ (simSeen.done /\ simSeen.calls = <<>>) => SeenBaseline
  /\ (simSeen.done /\ simSeen.calls # <<>>
        /\ simSeen.calls[Len(simSeen.calls)] = "high_memory")
       => simSeen.metrics.memory.percentage = 80
  /\ SeenAfterTriggerThenClear => SeenBaseline

\* a collection made after triggerScenario(high_memory), clearScenario()
C24_Witness ==
  /\ SeenAfterTriggerThenClear
  /\ simSeen.calls[Len(simSeen.calls) - 1] = "high_memory"
  /\ simSeen.metrics.memory.percentage = 25


(***************************************************************************)
(* The Execute-Fix handler (execute-fix.step.ts) statement by statement:   *)
(* one fix.approved event, its retries, and the order of what the handler  *)
(* writes, calls, emits and throws.                                        *)
(***************************************************************************)
\* rcaResult.metadata?.alertType || 'unknown'
XfAlertTypes == AlertTypes \cup {"unknown"}

MaxXfIncidents == 2     \* incidents the delivered event may be about
XfEvents ==
  [incidentId : {idOf(n) : n \in 1..MaxXfIncidents}, alertType : XfAlertTypes,
   attempt : {0}]

\* status persisted after a failed fix whatever the rollback call did
failureStatusAlwaysRolledBack(rollbackThrew) == "failed_with_rollback"
\* status persisted after a failed fix: the try and the catch around
\* rollbackManager.executeRollback
failureStatus(rollbackThrew) ==
  IF rollbackThrew THEN "failed_rollback_failed" ELSE "failed_with_rollback"

\* the handler going from the first state.set straight to the executor
executeFixNextSkipsSnapshot(pc, success) ==
  CASE pc = "delivered" -> "snapshotTaken"
    [] pc = "statusSet" -> "snapshotTaken"
    [] pc = "snapshotTaken" -> IF success THEN "succeeded" ELSE "failed"
    [] pc = "failed" -> "rolledBack"
    [] pc = "rolledBack" -> "failurePersisted"
    [] pc = "failurePersisted" -> "threw"
    [] pc = "succeeded" -> "completedPersisted"
    [] pc = "completedPersisted" -> "done"
    [] OTHER -> pc
\* the position after the statement at pc; success is executionResult.success
executeFixNext(pc, success) ==
  CASE pc = "delivered" -> "statusSet"
    [] pc = "statusSet" -> "snapshotTaken"
    [] pc = "snapshotTaken" -> IF success THEN "succeeded" ELSE "failed"
    [] pc = "failed" -> "rolledBack"
    [] pc = "rolledBack" -> "failurePersisted"
    [] pc = "failurePersisted" -> "threw"
    [] pc = "succeeded" -> "completedPersisted"
    [] pc = "completedPersisted" -> "done"
    [] OTHER -> pc

OutsideExecuteFix ==
  UNCHANGED <<pipeVars, polVars, authVars, fsVars, thVars, cacheVars, limVars,
              errVars, mwVars, lstVars, simVars,
              raceVars,
              poVars,
              rbVars,
              promVars,
              crVars,
              monVars,
              snVars>>

\* state.set('execution-status', incidentId, {status: 'executing', ...})
XfSetExecuting ==
  /\ xfPc = "delivered"
  /\ xfState' = [xfState EXCEPT !.executionStatus =
                   Put(@, xfEvent.incidentId, [status |-> "executing"])]
  /\ xfTrace' = Append(xfTrace, "status:executing")
  /\ xfPc' = executeFixNext(xfPc, FALSE)
  /\ UNCHANGED <<xfEvent, xfResult, xfPublished>>
  /\ OutsideExecuteFix

\* rollbackManager.createSnapshot(state, incidentId, alertType, ...)
XfCreateSnapshot ==
  /\ xfPc = "statusSet"
  /\ xfState' = [xfState EXCEPT
                   !.rollbackSnapshots =
                     createSnapshot(@, xfEvent.incidentId, xfEvent.alertType),
                   !.snapshotAttempt = xfEvent.attempt]
  /\ xfTrace' = Append(xfTrace, "snapshot")
  /\ xfPc' = executeFixNext(xfPc, FALSE)
  /\ UNCHANGED <<xfEvent, xfResult, xfPublished>>
  /\ OutsideExecuteFix

\* fixExecutor.executeFix(alertType, proposedFix, incidentId)
XfExecutor(cleanupOk) ==
  /\ xfPc = "snapshotTaken"
  /\ LET success == executeFix(xfEvent.alertType, cleanupOk) IN
     /\ xfResult' = [xfResult EXCEPT !.executed = TRUE, !.success = success]
     /\ xfPc' = executeFixNext(xfPc, success)
  /\ xfTrace' = Append(xfTrace, "executor")
  /\ UNCHANGED <<xfEvent, xfState, xfPublished>>
  /\ OutsideExecuteFix

XfExecutorAny == \E cleanupOk \in BOOLEAN : XfExecutor(cleanupOk)

\* rollbackManager.executeRollback(state, incidentId, reason) inside its try
XfRollback(rollbackOutcome) ==
  /\ xfPc = "failed"
  /\ LET rollback == executeRollback(xfState.rollbackSnapshots, xfEvent.incidentId,
                                     rollbackOutcome) IN
     xfResult' = [xfResult EXCEPT !.rolledBack = TRUE, !.rollbackThrew = rollback.threw]
  /\ xfTrace' = Append(xfTrace, "rollback")
  /\ xfPc' = executeFixNext(xfPc, FALSE)
  /\ UNCHANGED <<xfEvent, xfState, xfPublished>>
  /\ OutsideExecuteFix

XfRollbackAny == \E rollbackOutcome \in RollbackOutcomes : XfRollback(rollbackOutcome)

\* state.set('execution-status', ...) in the try or in the catch, then
\* state.set('execution-logs', ...)
XfPersistFailure ==
  /\ xfPc = "rolledBack"
  /\ xfState' = [xfState EXCEPT !.executionStatus =
                   Put(@, xfEvent.incidentId,
                       [status |-> failureStatus(xfResult.rollbackThrew)])]
  /\ xfTrace' = Append(xfTrace, "status:failed")
  /\ xfPc' = executeFixNext(xfPc, FALSE)
  /\ UNCHANGED <<xfEvent, xfResult, xfPublished>>
  /\ OutsideExecuteFix

\* throw new Error(executionResult.message), rethrown by the outer catch
XfThrow ==
  /\ xfPc = "failurePersisted"
  /\ xfTrace' = Append(xfTrace, "throw")
  /\ xfPc' = executeFixNext(xfPc, FALSE)
  /\ UNCHANGED <<xfEvent, xfState, xfResult, xfPublished>>
  /\ OutsideExecuteFix

\* the platform redelivers the event while retries remain
XfRetry ==
  /\ xfPc = "threw"
  /\ xfEvent.attempt < HandlerRetries
  /\ xfEvent' = [xfEvent EXCEPT !.attempt = @ + 1]
  /\ xfPc' = "delivered"
  /\ xfResult' = NoXfResult
  /\ xfTrace' = <<>>
  /\ UNCHANGED <<xfState, xfPublished>>
  /\ OutsideExecuteFix

\* state.set('execution-status', ..., {status: 'completed', ...}) and
\* state.set('execution-logs', ...)
XfPersistCompleted ==
  /\ xfPc = "succeeded"
  /\ xfState' = [xfState EXCEPT !.executionStatus =
                   Put(@, xfEvent.incidentId, [status |-> "completed"])]
  /\ xfTrace' = Append(xfTrace, "status:completed")
  /\ xfPc' = executeFixNext(xfPc, TRUE)
  /\ UNCHANGED <<xfEvent, xfResult, xfPublished>>
  /\ OutsideExecuteFix

\* emit({topic: 'fix.executed', ...})
XfEmit ==
  /\ xfPc = "completedPersisted"
  /\ xfPublished' = xfPublished + 1
  /\ xfTrace' = Append(xfTrace, "emit")
  /\ xfPc' = executeFixNext(xfPc, TRUE)
  /\ UNCHANGED <<xfEvent, xfState, xfResult>>
  /\ OutsideExecuteFix

NextExecuteFix ==
  \/ XfSetExecuting \/ XfCreateSnapshot \/ XfExecutorAny \/ XfRollbackAny
  \/ XfPersistFailure \/ XfThrow \/ XfRetry \/ XfPersistCompleted \/ XfEmit

InitExecuteFix ==
  /\ xfEvent \in XfEvents
  /\ xfPc = "delivered"
  /\ xfState = NoXfState
  /\ xfResult = NoXfResult
  /\ xfTrace = <<>>
  /\ xfPublished = 0
  /\ InitPipeline /\ InitPolicyIdle /\ InitAuthIdle /\ InitCleanupIdle
  /\ InitThresholdIdle /\ InitCacheIdle /\ InitLimiterIdle /\ InitErrorsIdle
  /\ InitMiddlewareIdle /\ InitListingIdle /\ InitSimulatorIdle
  /\ InitRaceIdle
  /\ InitPolicyOrderIdle
  /\ InitRollbackStepsIdle
  /\ InitProbeIdle
  /\ InitCacheRaceIdle
  /\ InitMonitorIdle
  /\ InitNotifyIdle

SpecExecuteFix == InitExecuteFix /\ [][NextExecuteFix]_vars

\* where the attempt did a thing: 0 when it has not done it
PosInTrace(item) ==
  IF \E k \in DOMAIN xfTrace : xfTrace[k] = item
  THEN CHOOSE k \in DOMAIN xfTrace : xfTrace[k] = item
  ELSE 0

ExecutorReportedFailure == xfResult.executed /\ ~xfResult.success

\* C25: whenever the Fix Executor reports failure, the Execute-Fix handler
\* attempts a rollback of the incident, then persists execution-status
\* failed_with_rollback (when the rollback call returned) or
\* failed_rollback_failed (when the rollback call threw), and only then throws
\* the execution error; it never emits fix.executed on that attempt.
C25_FailureRollsBackThenThrows ==
  ExecutorReportedFailure =>
    /\ PosInTrace("emit") = 0
    /\ PosInTrace("status:completed") = 0
    /\ PosInTrace("status:failed") # 0 =>
         /\ PosInTrace("rollback") # 0
         /\ PosInTrace("rollback") < PosInTrace("status:failed")
         /\ xfState.executionStatus[xfEvent.incidentId].status =
              IF xfResult.rollbackThrew THEN "failed_rollback_failed"
              ELSE "failed_with_rollback"
    /\ PosInTrace("throw") # 0 =>
         /\ PosInTrace("status:failed") # 0
         /\ PosInTrace("status:failed") < PosInTrace("throw")
    /\ xfPc \in {"failed", "rolledBack", "failurePersisted", "threw"}
    /\ xfPc = "threw" => PosInTrace("throw") # 0

\* a failed attempt that rolled back, persisted the failure and threw
C25_Witness ==
  /\ ExecutorReportedFailure
  /\ xfPc = "threw"
  /\ xfTrace = <<"status:executing", "snapshot", "executor", "rollback",
                 "status:failed", "throw">>
  /\ xfState.executionStatus[xfEvent.incidentId].status = "failed_rollback_failed"

\* C26: in every Execute-Fix attempt the rollback snapshot of the incident is
\* persisted under rollback-snapshots before the Fix Executor starts, so
\* wherever a fix has started or finished for an incident a snapshot of that
\* incident exists; a later attempt overwrites the earlier snapshot, leaving
\* one per incident.
C26_SnapshotBeforeExecutor ==
  /\ PosInTrace("executor") # 0 =>
       /\ PosInTrace("snapshot") # 0
       /\ PosInTrace("snapshot") < PosInTrace("executor")
       /\ xfState.snapshotAttempt = xfEvent.attempt
  /\ (xfResult.executed \/ xfPublished > 0 \/ xfEvent.attempt > 0) =>
       /\ Has(xfState.rollbackSnapshots, xfEvent.incidentId)
       /\ xfState.rollbackSnapshots[xfEvent.incidentId].incidentId = xfEvent.incidentId
  /\ DOMAIN xfState.rollbackSnapshots \subseteq {xfEvent.incidentId}

\* the executor has run in a second attempt, on the snapshot of that attempt
C26_Witness ==
  /\ xfEvent.attempt = 1
  /\ xfResult.executed
  /\ xfState.snapshotAttempt = 1
  /\ Has(xfState.rollbackSnapshots, xfEvent.incidentId)


(***************************************************************************)
(* Approval requests in flight at the same time: the handlers of           *)
(* GET /manual-approval, POST /manual-approval, GET /approve and           *)
(* GET /reject between their awaits (state.get, state.set, emit).          *)
(***************************************************************************)
MaxRaceRequests == 2   \* requests in flight for the incident

\* endpoint and action of a request that has passed its middleware
RaceKinds ==
  {[endpoint |-> "manual-approval-get", action |-> "approve"],
   [endpoint |-> "manual-approval-get", action |-> "reject"],
   [endpoint |-> "manual-approval-post", action |-> "approve"],
   [endpoint |-> "manual-approval-post", action |-> "reject"],
   [endpoint |-> "approve", action |-> "approve"],
   [endpoint |-> "reject", action |-> "reject"]}

RaceIncident == idOf(1)
\* state group rca-results: the RCA result of the incident is there
RaceRca == Put(EmptyGroup, RaceIncident, [incidentId |-> RaceIncident])
\* the PendingApproval the Policy Engine stored
RacePending ==
  Put(EmptyGroup, RaceIncident, [incidentId |-> RaceIncident, status |-> "pending"])

\* the checks of the handler on the PendingApproval it read: TRUE when the
\* handler goes on to the state change
raceCheck(kind, pending) ==
  CASE kind.endpoint = "manual-approval-get" ->
         manualApprovalGetCheck(pending, RaceRca, RaceIncident, kind.action, "",
                                [role |-> "operator"]).status = 200
    [] kind.endpoint = "manual-approval-post" ->
         manualApprovalPostCheck(pending, RaceRca, RaceIncident).status = 200
    [] kind.endpoint = "approve" ->
         slackApproveCheck(pending, RaceRca, RaceIncident) = "approved"
    [] kind.endpoint = "reject" ->
         slackRejectCheck(pending, RaceIncident) = "rejected"

\* status: action === 'approve' ? 'approved' : 'rejected'
raceStatus(kind) == IF kind.action = "approve" THEN "approved" ELSE "rejected"

\* the decision event of the handler
raceEvent(kind) ==
  IF kind.action = "approve"
  THEN [topic |-> "fix.approved",
        approvalType |-> CASE kind.endpoint = "manual-approval-get" -> "interactive"
                           [] kind.endpoint = "manual-approval-post" -> "manual"
                           [] OTHER -> "slack"]
  ELSE [topic |-> "fix.rejected", approvalType |-> "none"]

OutsideRace ==
  UNCHANGED <<pipeVars, polVars, authVars, fsVars, thVars, cacheVars, limVars,
              errVars, mwVars, lstVars, simVars, xfVars,
              poVars,
              rbVars,
              promVars,
              crVars,
              monVars,
              snVars>>

\* const pendingApproval = await state.get('approval-pending', incidentId)
\* and the checks on it
RaceRead(i) ==
  /\ rcRequests[i].pc = "start"
  /\ rcRequests' = [rcRequests EXCEPT
                      ![i].pc = IF raceCheck(rcRequests[i].kind, rcPending)
                                THEN "checked" ELSE "refused"]
  /\ UNCHANGED <<rcPending, rcEvents>>
  /\ OutsideRace

\* await state.set('approval-pending', incidentId, {...pendingApproval, status})
RaceWrite(i) ==
  /\ rcRequests[i].pc = "checked"
  /\ rcPending' = Put(rcPending, RaceIncident,
                      [incidentId |-> RaceIncident,
                       status |-> raceStatus(rcRequests[i].kind)])
  /\ rcRequests' = [rcRequests EXCEPT ![i].pc = "written"]
  /\ UNCHANGED rcEvents
  /\ OutsideRace

\* await emit({topic: 'fix.approved' | 'fix.rejected', ...})
RaceEmit(i) ==
  /\ rcRequests[i].pc = "written"
  /\ rcEvents' = Append(rcEvents, raceEvent(rcRequests[i].kind))
  /\ rcRequests' = [rcRequests EXCEPT ![i].pc = "done"]
  /\ UNCHANGED rcPending
  /\ OutsideRace

RaceReadAny == \E i \in DOMAIN rcRequests : RaceRead(i)
RaceWriteAny == \E i \in DOMAIN rcRequests : RaceWrite(i)
RaceEmitAny == \E i \in DOMAIN rcRequests : RaceEmit(i)

NextRace == RaceReadAny \/ RaceWriteAny \/ RaceEmitAny

InitRace ==
  /\ rcRequests \in [1..MaxRaceRequests -> [kind : RaceKinds, pc : {"start"}]]
  /\ rcPending = RacePending
  /\ rcEvents = <<>>
  /\ InitPipeline /\ InitPolicyIdle /\ InitAuthIdle /\ InitCleanupIdle
  /\ InitThresholdIdle /\ InitCacheIdle /\ InitLimiterIdle /\ InitErrorsIdle
  /\ InitMiddlewareIdle /\ InitListingIdle /\ InitSimulatorIdle
  /\ InitExecuteFixIdle
  /\ InitPolicyOrderIdle
  /\ InitRollbackStepsIdle
  /\ InitProbeIdle
  /\ InitCacheRaceIdle
  /\ InitMonitorIdle
  /\ InitNotifyIdle

SpecRace == InitRace /\ [][NextRace]_vars

\* fix.approved events that the Execute-Fix input schema lets through
RaceExecutions ==
  {k \in DOMAIN rcEvents :
     /\ rcEvents[k].topic = "fix.approved"
     /\ rcEvents[k].approvalType \in {"automatic", "manual"}}

RaceSettled == \A i \in DOMAIN rcRequests : rcRequests[i].pc \in {"refused", "done"}

\* C27: for every interleaving of concurrent approval requests for an
\* incident (GET /manual-approval, POST /manual-approval, GET /approve,
\* GET /reject), at most one decision event (fix.approved or fix.rejected) is
\* emitted, and it agrees with the final PendingApproval status: no fix is
\* executed for an incident whose final status is rejected, and no incident
\* is executed twice.
C27_OneDecisionPerIncident ==
  /\ Len(rcEvents) <= 1
  /\ Cardinality(RaceExecutions) <= 1
  /\ RaceSettled =>
       /\ \A k \in DOMAIN rcEvents :
            (rcEvents[k].topic = "fix.approved")
              = (rcPending[RaceIncident].status = "approved")
       /\ rcPending[RaceIncident].status = "rejected" => RaceExecutions = {}


(***************************************************************************)
(* The pipeline driven only by requests that carry no admin credential.    *)
(***************************************************************************)
\* requests without a key, or with the operator's or the viewer's key
NoAdminRequests ==
  {req \in PipelineRequests :
     authMiddleware(req).next => authMiddleware(req).user.role # "admin"}

ManualApprovalGetNoAdminStep ==
  Idle /\ \E incidentId \in IncidentIds, action \in ApprovalActions,
             execute \in ExecuteOptions, req \in NoAdminRequests :
            \E outcome \in ActionOutcomes(action, execute, sandboxOver) :
              ManualApprovalGet(incidentId, action, execute, ContainerFor(execute),
                                req, outcome)
ManualApprovalPostNoAdminStep ==
  Idle /\ \E incidentId \in IncidentIds, action \in ApprovalActions,
             req \in NoAdminRequests :
            ManualApprovalPost(incidentId, action, req)

NextNoAdmin ==
  \/ TriggerStep
  \/ MonitorStep
  \/ SandboxStep
  \/ RCAStep
  \/ RCAPersistStep
  \/ PolicyStep
  \/ ManualApprovalGetNoAdminStep
  \/ ManualApprovalPostNoAdminStep
  \/ SlackApproveStep
  \/ SlackRejectStep
  \/ ExecuteFixStep
  \/ ExecuteFixSkippedStep
  \/ VerifyStep

SpecNoAdmin == Init /\ [][NextNoAdmin]_vars

\* C28: the real sandbox cleanup (SandboxMonitor.executeCleanup) is run for an
\* incident only after a request authenticated with the admin role has
\* approved it: no sequence of requests without an admin credential
\* (unauthenticated GET /approve, operator-authenticated GET or POST
\* /manual-approval) leads to executeCleanup being run.
C28_CleanupOnlyAfterAdminApproval == cleanupRuns = 0

\* C29: every fix.approved event emitted by an approval path (Policy Engine
\* auto-approve, GET /manual-approval, POST /manual-approval, GET /approve)
\* carries an approvalType that the Execute-Fix input schema accepts
\* (automatic or manual), so every approved incident reaches the Fix Executor.
C29_ApprovalTypeAccepted ==
  \A m \in BagToSet(published) :
    m.topic = "fix.approved" => m.approvalType \in {"automatic", "manual"}


(***************************************************************************)
(* The Policy Engine handler (safety-check.step.ts) between its awaits:    *)
(* state.set of the decision, the emit, the state.set of the               *)
(* PendingApproval; and POST /manual-approval arriving at any moment.      *)
(***************************************************************************)
PoRcaResults ==
  [incidentId : {idOf(1)}, riskLevel : RiskLevels, proposedFix : PolicyFixes,
   alertType : AlertTypes \cup {NoAlertType}]

\* the decision of the handler, with the default rules
poDecision == evaluatePolicy(poRca, loadPolicyRules(EmptyGroup))

\* state group rca-results: the RCA stage has stored the result
poRcaResults == Put(EmptyGroup, poRca.incidentId, poRca)

OutsidePolicyOrder ==
  UNCHANGED <<pipeVars, polVars, authVars, fsVars, thVars, cacheVars, limVars,
              errVars, mwVars, lstVars, simVars, xfVars, raceVars,
              rbVars,
              promVars,
              crVars,
              monVars,
              snVars>>

\* await state.set('policy-decisions', incidentId, {...})
PoStoreDecision ==
  /\ poPc = "received"
  /\ poPc' = "decided"
  /\ UNCHANGED <<poRca, poPublished, poPending, poAnswer>>
  /\ OutsidePolicyOrder

\* the branch on decision.action: await emit(...) of fix.approved or of
\* approval.required, or state.set('policy-rejections', ...)
PoEmit ==
  /\ poPc = "decided"
  /\ poPublished' = poPublished \cup policyEmits(poRca, poDecision)
  /\ poPc' = IF poDecision.action = "require-approval" THEN "emitted" ELSE "done"
  /\ UNCHANGED <<poRca, poPending, poAnswer>>
  /\ OutsidePolicyOrder

\* await state.set('approval-pending', incidentId, {status: 'pending', ...})
PoStorePending ==
  /\ poPc = "emitted"
  /\ poPending' = policyPending(poPending, poRca, poDecision)
  /\ poPc' = "done"
  /\ UNCHANGED <<poRca, poPublished, poAnswer>>
  /\ OutsidePolicyOrder

\* POST /manual-approval for the incident, by an operator: the checks of
\* handlerPost on what state holds at that moment
PoApprovalRequest ==
  /\ ~poAnswer.asked
  /\ poAnswer' =
       [asked |-> TRUE,
        afterEvent |-> \E e \in poPublished : e.topic = "approval.required",
        status |-> manualApprovalPostCheck(poPending, poRcaResults,
                                           poRca.incidentId).status]
  /\ UNCHANGED <<poRca, poPc, poPublished, poPending>>
  /\ OutsidePolicyOrder

NextPolicyOrder == PoStoreDecision \/ PoEmit \/ PoStorePending \/ PoApprovalRequest

InitPolicyOrder ==
  /\ poRca \in PoRcaResults
  /\ poPc = "received"
  /\ poPublished = {}
  /\ poPending = EmptyGroup
  /\ poAnswer = NoPoAnswer
  /\ InitPipeline /\ InitPolicyIdle /\ InitAuthIdle /\ InitCleanupIdle
  /\ InitThresholdIdle /\ InitCacheIdle /\ InitLimiterIdle /\ InitErrorsIdle
  /\ InitMiddlewareIdle /\ InitListingIdle /\ InitSimulatorIdle
  /\ InitExecuteFixIdle /\ InitRaceIdle
  /\ InitRollbackStepsIdle
  /\ InitProbeIdle
  /\ InitCacheRaceIdle
  /\ InitMonitorIdle
  /\ InitNotifyIdle

SpecPolicyOrder == InitPolicyOrder /\ [][NextPolicyOrder]_vars

\* C30: whenever an approval.required event for an incident has been
\* published, the PendingApproval record of that incident with status pending
\* already exists in state, so an approval request that arrives right after
\* the event is never answered NotFound for lack of that record.
C30_PendingStoredBeforeEvent ==
  /\ (\E e \in poPublished : e.topic = "approval.required") =>
       /\ Has(poPending, poRca.incidentId)
       /\ poPending[poRca.incidentId].status = "pending"
  /\ (poAnswer.asked /\ poAnswer.afterEvent) => poAnswer.status # 404


(***************************************************************************)
(* executeRollback (rollback-manager.ts) statement by statement: the       *)
(* snapshot look-up, the loop over the procedure's steps, the              *)
(* verification, the history record.                                       *)
(***************************************************************************)
\* what the look-up can return: nothing, or the snapshot of any alert type
RbSnapshots ==
  {[found |-> FALSE, alertType |-> "none"]}
    \cup {[found |-> TRUE, alertType |-> t] : t \in AlertTypes}

\* the loop leaving at the first step that fails
afterStepFailFast(i, failed, steps) ==
  IF failed \/ i + 1 >= Len(steps) THEN "verify" ELSE "loop"
\* for (let i = 0; i < procedure.steps.length; i++) with the try/catch inside:
\* where the call is after step i has run
afterStep(i, failed, steps) ==
  IF i + 1 < Len(steps) THEN "loop" ELSE "verify"

OutsideRollbackSteps ==
  UNCHANGED <<pipeVars, polVars, authVars, fsVars, thVars, cacheVars, limVars,
              errVars, mwVars, lstVars, simVars, xfVars, raceVars, poVars,
              promVars,
              crVars,
              monVars,
              snVars>>

\* state.get of the snapshot, the throw when it is missing, and
\* getRollbackProcedure: reading procedure.steps of undefined raises
RbStart ==
  /\ rbPc = "called"
  /\ IF ~rbSnapshot.found \/ rbSnapshot.alertType \notin DOMAIN rollbackProcedures
     THEN /\ rbPc' = "done"
          /\ rbOutcome' = [rbOutcome EXCEPT !.threw = TRUE]
     ELSE /\ rbPc' = IF Len(rollbackProcedures[rbSnapshot.alertType].steps) > 0
                     THEN "loop" ELSE "verify"
          /\ UNCHANGED rbOutcome
  /\ UNCHANGED <<rbSnapshot, rbIndex, rbErrors, rbTrace>>
  /\ OutsideRollbackSteps

\* one turn of the loop: executeRollbackStep(snapshot, step) resolves or
\* rejects; a rejection is pushed on errors
RbStep(failed) ==
  /\ rbPc = "loop"
  /\ LET steps == rollbackProcedures[rbSnapshot.alertType].steps IN
     /\ rbTrace' = Append(rbTrace, steps[rbIndex + 1])
     /\ rbErrors' = IF failed THEN Append(rbErrors, rbIndex + 1) ELSE rbErrors
     /\ rbPc' = afterStep(rbIndex, failed, steps)
  /\ rbIndex' = rbIndex + 1
  /\ UNCHANGED <<rbSnapshot, rbOutcome>>
  /\ OutsideRollbackSteps

RbStepAny == \E failed \in BOOLEAN : RbStep(failed)

\* verificationPassed = await this.verifyRollback(snapshot)
RbVerify(passed) ==
  /\ rbPc = "verify"
  /\ rbTrace' = Append(rbTrace, "verifyRollback")
  /\ rbOutcome' = [rbOutcome EXCEPT !.verificationPassed = passed]
  /\ rbPc' = "verified"
  /\ UNCHANGED <<rbSnapshot, rbIndex, rbErrors>>
  /\ OutsideRollbackSteps

RbVerifyAny == \E passed \in BOOLEAN : RbVerify(passed)

\* success, state.set('rollback-history', ...), return result
RbReturn ==
  /\ rbPc = "verified"
  /\ rbOutcome' = [rbOutcome EXCEPT
                     !.returned = TRUE, !.stored = TRUE,
                     !.success = (Len(rbErrors) = 0 /\ rbOutcome.verificationPassed)]
  /\ rbPc' = "done"
  /\ UNCHANGED <<rbSnapshot, rbIndex, rbErrors, rbTrace>>
  /\ OutsideRollbackSteps

NextRollbackSteps == RbStart \/ RbStepAny \/ RbVerifyAny \/ RbReturn

InitRollbackSteps ==
  /\ rbSnapshot \in RbSnapshots
  /\ rbPc = "called"
  /\ rbIndex = 0
  /\ rbErrors = <<>>
  /\ rbTrace = <<>>
  /\ rbOutcome = NoRbOutcome
  /\ InitPipeline /\ InitPolicyIdle /\ InitAuthIdle /\ InitCleanupIdle
  /\ InitThresholdIdle /\ InitCacheIdle /\ InitLimiterIdle /\ InitErrorsIdle
  /\ InitMiddlewareIdle /\ InitListingIdle /\ InitSimulatorIdle
  /\ InitExecuteFixIdle /\ InitRaceIdle /\ InitPolicyOrderIdle
  /\ InitProbeIdle
  /\ InitCacheRaceIdle
  /\ InitMonitorIdle
  /\ InitNotifyIdle

SpecRollbackSteps == InitRollbackSteps /\ [][NextRollbackSteps]_vars

\* the snapshot's alert type has a rollback procedure
RbHasProcedure == rbSnapshot.found /\ rbSnapshot.alertType \in DOMAIN rollbackProcedures

\* C31: executeRollback attempts every step of the alert type's rollback
\* procedure exactly once, in the declared order, also after an earlier step
\* has failed; a step failure is collected in the result's errors and is not
\* raised, and the verification check runs after the last step whatever the
\* step outcomes.
C31_AllStepsInOrder ==
  RbHasProcedure =>
    LET steps == rollbackProcedures[rbSnapshot.alertType].steps IN
    /\ ~rbOutcome.threw
    /\ \A k \in DOMAIN rbTrace : k <= Len(steps) => rbTrace[k] = steps[k]
    /\ Len(rbTrace) <= Len(steps) + 1
    /\ \A k \in DOMAIN rbErrors : rbErrors[k] \in DOMAIN steps
    /\ rbPc \in {"verified", "done"} =>
         /\ rbTrace = steps \o <<"verifyRollback">>
         /\ rbIndex = Len(steps)
    /\ rbOutcome.returned =>
         rbOutcome.success = (rbErrors = <<>> /\ rbOutcome.verificationPassed)

\* a call whose first step failed, whose later steps still ran and whose
\* verification ran after them
C31_Witness ==
  /\ RbHasProcedure
  /\ rbOutcome.returned
  /\ Len(rbErrors) > 0 /\ rbErrors[1] = 1
  /\ rbTrace = rollbackProcedures[rbSnapshot.alertType].steps \o <<"verifyRollback">>


(***************************************************************************)
(* PrometheusClient.checkConnection (prometheus-client.ts): callers of     *)
(* isEnabled and collectMetrics, the one fetch of /-/healthy, and the      *)
(* cached result.                                                          *)
(***************************************************************************)
MaxProbeCallers == 3   \* calls of isEnabled or collectMetrics in a behaviour

ProbeMethods == {"isEnabled", "collectMetrics"}
\* the fetch answers ok, answers with another status, or fails (timeout)
ProbeOutcomes == {"ok", "notOk", "error"}

\* checkConnection not looking at the promise in progress
checkConnectionNoShare(enabled, promise) ==
  IF enabled # "null" THEN "cached" ELSE "probe"
\* checkConnection up to its first await: answer from the cached flag, join
\* the promise in progress, or start the probe
checkConnection(enabled, promise) ==
  IF enabled # "null" THEN "cached"
  ELSE IF promise # "none" THEN "join"
  ELSE "probe"

\* this.enabled after the fetch: response.ok, or false in the catch
probeResult(outcome) == IF outcome = "ok" THEN "true" ELSE "false"

OutsideProbe ==
  UNCHANGED <<pipeVars, polVars, authVars, fsVars, thVars, cacheVars, limVars,
              errVars, mwVars, lstVars, simVars, xfVars, raceVars, poVars,
              rbVars,
              crVars,
              monVars,
              snVars>>

\* a caller enters isEnabled or collectMetrics, which awaits checkConnection()
ProbeCall(i) ==
  /\ promCallers[i].pc = "idle"
  /\ LET does == checkConnection(promEnabled, promCheck) IN
     /\ promCallers' = [promCallers EXCEPT
                          ![i].pc = IF does = "cached" THEN "done" ELSE "waiting",
                          ![i].got = IF does = "cached" THEN promEnabled ELSE "none",
                          ![i].how = does]
     /\ promProbes' = IF does = "probe" THEN promProbes + 1 ELSE promProbes
     /\ promCheck' = IF does = "probe" THEN "pending" ELSE promCheck
  /\ UNCHANGED promEnabled
  /\ OutsideProbe

ProbeCallAny == \E i \in DOMAIN promCallers : ProbeCall(i)

\* the fetch settles: this.enabled is set and the promise resolves
ProbeSettles(outcome) ==
  /\ promCheck = "pending"
  /\ promEnabled' = probeResult(outcome)
  /\ promCheck' = probeResult(outcome)
  /\ UNCHANGED <<promProbes, promCallers>>
  /\ OutsideProbe

ProbeSettlesAny == \E outcome \in ProbeOutcomes : ProbeSettles(outcome)

\* a caller awaiting the promise gets its value
ProbeResume(i) ==
  /\ promCallers[i].pc = "waiting"
  /\ promCheck \in {"true", "false"}
  /\ promCallers' = [promCallers EXCEPT ![i].pc = "done", ![i].got = promCheck]
  /\ UNCHANGED <<promEnabled, promCheck, promProbes>>
  /\ OutsideProbe

ProbeResumeAny == \E i \in DOMAIN promCallers : ProbeResume(i)

NextProbe == ProbeCallAny \/ ProbeSettlesAny \/ ProbeResumeAny

InitProbe ==
  /\ promEnabled = "null"
  /\ promCheck = "none"
  /\ promProbes = 0
  /\ promCallers \in [1..MaxProbeCallers ->
                        [method : ProbeMethods, pc : {"idle"}, got : {"none"},
                         how : {"none"}]]
  /\ InitPipeline /\ InitPolicyIdle /\ InitAuthIdle /\ InitCleanupIdle
  /\ InitThresholdIdle /\ InitCacheIdle /\ InitLimiterIdle /\ InitErrorsIdle
  /\ InitMiddlewareIdle /\ InitListingIdle /\ InitSimulatorIdle
  /\ InitExecuteFixIdle /\ InitRaceIdle /\ InitPolicyOrderIdle
  /\ InitRollbackStepsIdle
  /\ InitCacheRaceIdle
  /\ InitMonitorIdle
  /\ InitNotifyIdle

SpecProbe == InitProbe /\ [][NextProbe]_vars

\* C32: for any number of concurrent first callers of the Metrics-Database
\* Client (isEnabled or collectMetrics) exactly one reachability probe is
\* issued and every caller gets its result; once the probe has completed,
\* reachable or not, no further probe is ever issued and every later call uses
\* the cached result.
C32_OneProbeShared ==
  /\ promProbes <= 1
  /\ (\E i \in DOMAIN promCallers : promCallers[i].pc # "idle") => promProbes = 1
  /\ \A i \in DOMAIN promCallers :
       promCallers[i].pc = "done" =>
         /\ promCallers[i].got \in {"true", "false"}
         /\ promCallers[i].got = promEnabled
  /\ \A i, j \in DOMAIN promCallers :
       (promCallers[i].pc = "done" /\ promCallers[j].pc = "done")
         => promCallers[i].got = promCallers[j].got

\* two callers shared the probe in flight and a later one used the cached
\* result of an unreachable database
C32_Witness ==
  /\ promProbes = 1
  /\ promEnabled = "false"
  /\ \A i \in DOMAIN promCallers : promCallers[i].pc = "done"
  /\ \E i, j, k \in DOMAIN promCallers :
       /\ promCallers[i].how = "probe"
       /\ promCallers[j].how = "join"
       /\ promCallers[k].how = "cached"


(***************************************************************************)
(* A get and a write-through set of the same group and key in flight at    *)
(* the same time: StateCache.get and StateCache.set between their awaits   *)
(* (state.get, state.set).                                                 *)
(***************************************************************************)
CrKey == "incidents:k1"
CrOtherKey == "incidents:k2"

OutsideCacheRace ==
  UNCHANGED <<pipeVars, polVars, authVars, fsVars, thVars, limVars, errVars,
              mwVars, lstVars, simVars, xfVars, raceVars, poVars, rbVars,
              promVars,
              monVars,
              snVars>>

CrCacheFrame ==
  UNCHANGED <<now, cacheConfig, lastGet, cacheOps, cacheAccess, cacheInserted,
              cachePure>>

\* get, up to its await: const cached = this.cache.get(cacheKey), the expiry
\* test, and the call of state.get on a miss
CrGetCheck ==
  /\ crGet.pc = "start"
  /\ IF CrKey \in DOMAIN cache /\ ~isExpired(cache[CrKey], now)
     THEN /\ accessOrder' = updateAccessOrder(accessOrder, CrKey)
          /\ cache' = IF cacheConfig.refreshOnAccess
                      THEN [cache EXCEPT ![CrKey].expiresAt = now + cacheConfig.ttl]
                      ELSE cache
          /\ crGet' = [crGet EXCEPT !.pc = "done", !.data = cache[CrKey].data]
     ELSE /\ cache' = IF CrKey \in DOMAIN cache THEN MapDelete(cache, CrKey)
                      ELSE cache
          /\ accessOrder' = removeFromAccessOrder(accessOrder, CrKey)
          /\ crGet' = [crGet EXCEPT !.pc = "reading", !.missed = TRUE]
  /\ UNCHANGED <<store, crSet>>
  /\ CrCacheFrame
  /\ OutsideCacheRace

\* state.get(group, key) reads the store, or fails
CrGetRead(storeOk) ==
  /\ crGet.pc = "reading"
  /\ crGet' = IF storeOk
              THEN [crGet EXCEPT !.pc = "read", !.data = storeGet(store, CrKey)]
              ELSE [crGet EXCEPT !.pc = "threw"]
  /\ UNCHANGED <<cache, accessOrder, store, crSet>>
  /\ CrCacheFrame
  /\ OutsideCacheRace

\* get, after its await: if (data !== null) this.set(cacheKey, data, config)
CrGetResume ==
  /\ crGet.pc = "read"
  /\ LET u == updateCache(cache, accessOrder, CrKey, crGet.data, cacheConfig, now) IN
     IF crGet.data # Null
     THEN cache' = u.cache /\ accessOrder' = u.accessOrder
     ELSE UNCHANGED <<cache, accessOrder>>
  /\ crGet' = [crGet EXCEPT !.pc = "done"]
  /\ UNCHANGED <<store, crSet>>
  /\ CrCacheFrame
  /\ OutsideCacheRace

\* the cache is updated whether state.set fulfilled or not
setNextIgnoresFailure(storeOk) == "written"
\* the write-through set after await state.set: on to updateCache, or the
\* catch that throws a StateCacheError
setNext(storeOk) == IF storeOk THEN "written" ELSE "threw"

\* state.set(group, key, value) writes the store, or fails
CrSetWrite(storeOk) ==
  /\ crSet.pc = "start"
  /\ store' = IF storeOk THEN Put(store, CrKey, crSet.value) ELSE store
  /\ crSet' = [crSet EXCEPT !.pc = setNext(storeOk)]
  /\ UNCHANGED <<cache, accessOrder, crGet>>
  /\ CrCacheFrame
  /\ OutsideCacheRace

\* set, after its await: this.updateCache(cacheKey, value, config)
CrSetResume ==
  /\ crSet.pc = "written"
  /\ LET u == updateCache(cache, accessOrder, CrKey, crSet.value, cacheConfig, now) IN
     cache' = u.cache /\ accessOrder' = u.accessOrder
  /\ crSet' = [crSet EXCEPT !.pc = "done"]
  /\ UNCHANGED <<store, crGet>>
  /\ CrCacheFrame
  /\ OutsideCacheRace

CrGetReadAny == \E storeOk \in BOOLEAN : CrGetRead(storeOk)
CrSetWriteAny == \E storeOk \in BOOLEAN : CrSetWrite(storeOk)
\* Date.now() advances while the calls are in flight
CrClockTick == ClockTick /\ UNCHANGED crVars

NextCacheRace ==
  \/ CrGetCheck
  \/ CrGetReadAny
  \/ CrGetResume
  \/ CrSetWriteAny
  \/ CrSetResume
  \/ CrClockTick

\* the store holds a value for the key or none; the cache does not hold the
\* key and may hold another one
InitCacheRace ==
  /\ cacheConfig \in CacheConfigs
  /\ now = 0
  /\ \E held \in BOOLEAN :
       /\ cache = IF held
                  THEN Put(<<>>, CrOtherKey, [data |-> "a", expiresAt |-> cacheConfig.ttl])
                  ELSE <<>>
       /\ accessOrder = IF held THEN <<CrOtherKey>> ELSE <<>>
  /\ store \in {<<>>} \cup {Put(<<>>, CrKey, v) : v \in CacheValues}
  /\ crGet = [pc |-> "start", missed |-> FALSE, data |-> Null]
  /\ crSet \in [pc : {"start"}, value : CacheValues]
  /\ lastGet = NoGet
  /\ cacheOps = 0
  /\ cacheAccess = <<>>
  /\ cacheInserted = <<>>
  /\ cachePure = TRUE
  /\ InitPipeline /\ InitPolicyIdle /\ InitAuthIdle /\ InitCleanupIdle
  /\ InitThresholdIdle /\ InitLimiterIdle /\ InitErrorsIdle
  /\ InitMiddlewareIdle /\ InitListingIdle /\ InitSimulatorIdle
  /\ InitExecuteFixIdle /\ InitRaceIdle /\ InitPolicyOrderIdle
  /\ InitRollbackStepsIdle /\ InitProbeIdle
  /\ InitMonitorIdle
  /\ InitNotifyIdle

SpecCacheRace == InitCacheRace /\ [][NextCacheRace]_vars

\* both calls have returned or thrown
CrCompleted == crGet.pc \in {"done", "threw"} /\ crSet.pc \in {"done", "threw"}

\* C33: under any interleaving of a State Cache get that misses with a
\* concurrent write-through set of the same group and key, once both calls
\* have completed the value held in the cache for that key equals the value
\* held in the underlying store.
C33_CacheAgreesWithStore ==
  (CrCompleted /\ crGet.missed /\ CrKey \in DOMAIN cache)
    => cache[CrKey].data = storeGet(store, CrKey)


\* C34: for each of the six scenarios, POST /trigger-alert with that scenario
\* persists in state group alerts, and emits on alert.detected, an alert
\* whose alertType equals the requested scenario.
C34_TriggeredAlertHasScenarioType ==
  [][\A scenario \in AlertTypes :
       TriggerAlert(scenario) =>
         /\ Has(alerts', idOf(nextId))
         /\ alerts'[idOf(nextId)].alertType = scenario
         /\ \E m \in BagToSet(published') :
              /\ m.topic = "alert.detected"
              /\ m.incidentId = idOf(nextId)
              /\ m.alertType = scenario]_vars


(***************************************************************************)
(* The InfrastructureMonitor handler (monitor.step.ts) between its awaits, *)
(* each of which may reject: collectMetrics, state.set, streams.set, emit, *)
(* the sandbox measurement, the monitoring-history write.                  *)
(***************************************************************************)
MaxMonAlerts == 2      \* alerts the primary source gives in one cycle

\* the alerts a source can give: the first alert of each scenario
MonAlertPool == {simulatorAlerts(s)[1] : s \in AlertTypes}

\* the alerts of one cycle: up to MaxMonAlerts alerts of different checks
MonAlertLists ==
  {list \in UNION {[1..n -> MonAlertPool] : n \in 0..MaxMonAlerts} :
     \A i, j \in DOMAIN list : i # j => list[i] # list[j]}

\* the awaits inside the inner try of step 6
MonSandboxOps == {"sandboxCollect", "sandboxState", "sandboxStream", "sandboxEmit"}

\* every rejection lands in the outer catch
catchOfOuterOnly(pc) == "caught"
\* where a rejection of the await at pc lands: the inner catch of step 6
\* falls through to step 7, the outer catch ends the run
catchOf(pc) == IF pc \in MonSandboxOps THEN "summary" ELSE "caught"

\* the outer catch: logger.error, "Don't throw - let the cron continue running"
outerCatch == "returned"

\* alert.id of the k-th primary alert, and of the sandbox alert
monId(k) == idOf(k)
monSandboxId == idOf(MaxMonAlerts + 1)

OutsideMonitor ==
  UNCHANGED <<pipeVars, polVars, authVars, fsVars, thVars, cacheVars, limVars,
              errVars, mwVars, lstVars, simVars, xfVars, raceVars, poVars,
              rbVars, promVars, crVars,
              snVars>>

\* an await at pc settles: fulfilled it goes on to nextPc, rejected to its catch
MonAwait(pc, ok, nextPc) ==
  /\ monPc = pc
  /\ monOutcome = "running"
  /\ monPc' = IF ok THEN nextPc ELSE catchOf(pc)
  /\ monFailures' = IF ok THEN monFailures ELSE monFailures \cup {pc}

\* const metrics = await monitoringSource.collectMetrics(), the health
\* checks and detectAlerts
MonCollect(ok) ==
  /\ MonAwait("collect", ok, IF Len(monAlerts) > 0 THEN "alertState" ELSE "sandboxCollect")
  /\ monIdx' = 1
  /\ UNCHANGED <<monAlerts, monStored, monStreamed, monEmitted, monHistory,
                 monSandbox, monOutcome>>
  /\ OutsideMonitor

\* await state.set('alerts', alert.id, alert)
MonAlertState(ok) ==
  /\ MonAwait("alertState", ok, "alertStream")
  /\ monStored' = IF ok THEN monStored \cup {monId(monIdx)} ELSE monStored
  /\ UNCHANGED <<monAlerts, monIdx, monStreamed, monEmitted, monHistory,
                 monSandbox, monOutcome>>
  /\ OutsideMonitor

\* await streams.incident.set('incidents', alert.id, {...})
MonAlertStream(ok) ==
  /\ MonAwait("alertStream", ok, "alertEmit")
  /\ monStreamed' = IF ok THEN monStreamed \cup {monId(monIdx)} ELSE monStreamed
  /\ UNCHANGED <<monAlerts, monIdx, monStored, monEmitted, monHistory,
                 monSandbox, monOutcome>>
  /\ OutsideMonitor

\* await emit({topic: 'alert.detected', data: alert}), and the next alert
MonAlertEmit(ok) ==
  /\ MonAwait("alertEmit", ok,
              IF monIdx < Len(monAlerts) THEN "alertState" ELSE "sandboxCollect")
  /\ monEmitted' = IF ok THEN Append(monEmitted, monId(monIdx)) ELSE monEmitted
  /\ monIdx' = IF ok THEN monIdx + 1 ELSE monIdx
  /\ UNCHANGED <<monAlerts, monStored, monStreamed, monHistory, monSandbox,
                 monOutcome>>
  /\ OutsideMonitor

\* const sandboxMetrics = await sandboxMonitor.collectMetrics() and the
\* comparison with the threshold
MonSandboxCollect(measured) ==
  /\ MonAwait("sandboxCollect", measured # "failed",
              IF measured = "over" THEN "sandboxState" ELSE "summary")
  /\ monSandbox' = measured
  /\ UNCHANGED <<monAlerts, monIdx, monStored, monStreamed, monEmitted,
                 monHistory, monOutcome>>
  /\ OutsideMonitor

\* await state.set('alerts', sandboxAlert.id, sandboxAlert)
MonSandboxState(ok) ==
  /\ MonAwait("sandboxState", ok, "sandboxStream")
  /\ monStored' = IF ok THEN monStored \cup {monSandboxId} ELSE monStored
  /\ UNCHANGED <<monAlerts, monIdx, monStreamed, monEmitted, monHistory,
                 monSandbox, monOutcome>>
  /\ OutsideMonitor

\* await streams.incident.set('incidents', sandboxAlert.id, {...})
MonSandboxStream(ok) ==
  /\ MonAwait("sandboxStream", ok, "sandboxEmit")
  /\ monStreamed' = IF ok THEN monStreamed \cup {monSandboxId} ELSE monStreamed
  /\ UNCHANGED <<monAlerts, monIdx, monStored, monEmitted, monHistory,
                 monSandbox, monOutcome>>
  /\ OutsideMonitor

\* await emit({topic: 'alert.detected', data: sandboxAlert})
MonSandboxEmit(ok) ==
  /\ MonAwait("sandboxEmit", ok, "summary")
  /\ monEmitted' = IF ok THEN Append(monEmitted, monSandboxId) ELSE monEmitted
  /\ UNCHANGED <<monAlerts, monIdx, monStored, monStreamed, monHistory,
                 monSandbox, monOutcome>>
  /\ OutsideMonitor

\* await state.set('monitoring-history', `check-${Date.now()}`, monitoringSummary)
\* and the return
MonSummary(ok) ==
  /\ MonAwait("summary", ok, "end")
  /\ monHistory' = IF ok THEN monHistory + 1 ELSE monHistory
  /\ monOutcome' = IF ok THEN "returned" ELSE monOutcome
  /\ UNCHANGED <<monAlerts, monIdx, monStored, monStreamed, monEmitted, monSandbox>>
  /\ OutsideMonitor

\* catch (error) { logger.error(...) }
MonCatch ==
  /\ monPc = "caught"
  /\ monOutcome = "running"
  /\ monPc' = "end"
  /\ monOutcome' = outerCatch
  /\ UNCHANGED <<monAlerts, monIdx, monStored, monStreamed, monEmitted,
                 monHistory, monSandbox, monFailures>>
  /\ OutsideMonitor

MonCollectAny == \E ok \in BOOLEAN : MonCollect(ok)
MonAlertStateAny == \E ok \in BOOLEAN : MonAlertState(ok)
MonAlertStreamAny == \E ok \in BOOLEAN : MonAlertStream(ok)
MonAlertEmitAny == \E ok \in BOOLEAN : MonAlertEmit(ok)
MonSandboxCollectAny ==
  \E measured \in {"failed", "under", "over"} : MonSandboxCollect(measured)
MonSandboxStateAny == \E ok \in BOOLEAN : MonSandboxState(ok)
MonSandboxStreamAny == \E ok \in BOOLEAN : MonSandboxStream(ok)
MonSandboxEmitAny == \E ok \in BOOLEAN : MonSandboxEmit(ok)
MonSummaryAny == \E ok \in BOOLEAN : MonSummary(ok)

NextMonitor ==
  \/ MonCollectAny
  \/ MonAlertStateAny
  \/ MonAlertStreamAny
  \/ MonAlertEmitAny
  \/ MonSandboxCollectAny
  \/ MonSandboxStateAny
  \/ MonSandboxStreamAny
  \/ MonSandboxEmitAny
  \/ MonSummaryAny
  \/ MonCatch

InitMonitor ==
  /\ monPc = "collect"
  /\ monAlerts \in MonAlertLists
  /\ monIdx = 0
  /\ monStored = {}
  /\ monStreamed = {}
  /\ monEmitted = <<>>
  /\ monHistory = 0
  /\ monSandbox = "unmeasured"
  /\ monFailures = {}
  /\ monOutcome = "running"
  /\ InitPipeline /\ InitPolicyIdle /\ InitAuthIdle /\ InitCleanupIdle
  /\ InitThresholdIdle /\ InitCacheIdle /\ InitLimiterIdle /\ InitErrorsIdle
  /\ InitMiddlewareIdle /\ InitListingIdle /\ InitSimulatorIdle
  /\ InitExecuteFixIdle /\ InitRaceIdle /\ InitPolicyOrderIdle
  /\ InitRollbackStepsIdle /\ InitProbeIdle /\ InitCacheRaceIdle
  /\ InitNotifyIdle

SpecMonitor == InitMonitor /\ [][NextMonitor]_vars

MonPrimaryIds == {monId(k) : k \in DOMAIN monAlerts}

\* C35: if the sandbox measurement fails during a monitoring cycle, the
\* alerts derived from the primary metrics source are still persisted and
\* published on alert.detected, the monitoring-history summary of the cycle
\* is still written (its own write fulfilling), and the scheduler handler
\* returns without throwing; no failure of metrics collection, state write,
\* stream write or event publication escapes the handler.
C35_SandboxFailureContained ==
  /\ monOutcome # "threw"
  /\ monPc = "end" => monOutcome = "returned"
  /\ (monSandbox = "failed" /\ monPc = "end") =>
       /\ MonPrimaryIds \subseteq monStored
       /\ MonPrimaryIds \subseteq SeqRange(monEmitted)
       /\ "summary" \notin monFailures => monHistory = 1

\* a cycle with a primary alert whose sandbox measurement failed has ended
C35_Witness ==
  /\ monSandbox = "failed"
  /\ monPc = "end"
  /\ Len(monAlerts) >= 2
  /\ monHistory = 1
  /\ monFailures = {"sandboxCollect"}


(***************************************************************************)
(* The SendSlackNotification handler (send-slack-notification.step.ts)     *)
(* between its awaits, with the senders it calls: SlackClient              *)
(* .sendApprovalRequest raises on a failed POST, SlackInteractiveService   *)
(* .sendWebhook logs it and returns.                                       *)
(***************************************************************************)
\* rcaResult.metadata.diskUsagePercent: 0 stands for a missing value
SnDiskUsages == {0, 50, 95}

SnEvents ==
  [webhook : BOOLEAN, alertType : AlertTypes \cup {NoAlertType},
   diskUsagePercent : SnDiskUsages]

\* isDiskAlert || isHighDiskUsage || isMemoryAlert
snInteractive(event) ==
  \/ event.alertType \in {"disk_full", "sandbox_disk_full"}
  \/ event.diskUsagePercent # 0 /\ event.diskUsagePercent > 92
  \/ event.alertType = "high_memory"

\* (isDiskAlert || isHighDiskUsage) && !currentDiskUsage
snNeedsDiskUsage(event) ==
  /\ \/ event.alertType \in {"disk_full", "sandbox_disk_full"}
     \/ event.diskUsagePercent # 0 /\ event.diskUsagePercent > 92
  /\ event.diskUsagePercent = 0

\* the handler up to its first await
snFirst(event) ==
  IF ~event.webhook THEN "storeSkipped"
  ELSE IF snInteractive(event)
  THEN IF snNeedsDiskUsage(event) THEN "collectDisk" ELSE "sendInteractive"
  ELSE "sendStandard"

\* every send is followed by the record 'sent'
afterSendAlwaysSent(raised) == "storeSent"
\* after the send: the statement after it, or the catch of the handler
afterSend(raised) == IF raised THEN "storeFailed" ELSE "storeSent"

OutsideNotify ==
  UNCHANGED <<pipeVars, polVars, authVars, fsVars, thVars, cacheVars, limVars,
              errVars, mwVars, lstVars, simVars, xfVars, raceVars, poVars,
              rbVars, promVars, crVars, monVars>>

\* if (!process.env.SLACK_WEBHOOK_URL), the choice of the sender
SnStart ==
  /\ snPc = "start"
  /\ snPc' = snFirst(snEvent)
  /\ UNCHANGED <<snEvent, snSendError, snRecord, snPending, snOutcome>>
  /\ OutsideNotify

\* await state.set('slack-notifications', incidentId, {status: 'skipped'}); return
SnStoreSkipped ==
  /\ snPc = "storeSkipped"
  /\ snRecord' = "skipped"
  /\ snPc' = "end"
  /\ snOutcome' = "returned"
  /\ UNCHANGED <<snEvent, snSendError, snPending>>
  /\ OutsideNotify

\* const metrics = await prometheusClient.collectMetrics() in its own try:
\* a rejection sets currentDiskUsage = 0
SnCollectDisk(ok) ==
  /\ snPc = "collectDisk"
  /\ snPc' = "sendInteractive"
  /\ UNCHANGED <<snEvent, snSendError, snRecord, snPending, snOutcome>>
  /\ OutsideNotify

\* await slackInteractive.sendInteractiveApproval(...): sendWebhook catches
\* a failed POST and does not throw
SnSendInteractive(posted) ==
  /\ snPc = "sendInteractive"
  /\ snSendError' = IF posted THEN "none" ELSE "swallowed"
  /\ snPc' = afterSend(FALSE)
  /\ UNCHANGED <<snEvent, snRecord, snPending, snOutcome>>
  /\ OutsideNotify

\* await getSlackClient().sendApprovalRequest(...): throws on a failed POST
SnSendStandard(posted) ==
  /\ snPc = "sendStandard"
  /\ snSendError' = IF posted THEN "none" ELSE "raised"
  /\ snPc' = afterSend(~posted)
  /\ UNCHANGED <<snEvent, snRecord, snPending, snOutcome>>
  /\ OutsideNotify

\* await state.set('slack-notifications', incidentId, {status: 'sent'})
SnStoreSent ==
  /\ snPc = "storeSent"
  /\ snRecord' = "sent"
  /\ snPc' = "end"
  /\ snOutcome' = "returned"
  /\ UNCHANGED <<snEvent, snSendError, snPending>>
  /\ OutsideNotify

\* catch (error): await state.set('slack-notifications', incidentId,
\* {status: 'failed'}), no throw
SnStoreFailed ==
  /\ snPc = "storeFailed"
  /\ snRecord' = "failed"
  /\ snPc' = "end"
  /\ snOutcome' = "returned"
  /\ UNCHANGED <<snEvent, snSendError, snPending>>
  /\ OutsideNotify

SnCollectDiskAny == \E ok \in BOOLEAN : SnCollectDisk(ok)
SnSendInteractiveAny == \E posted \in BOOLEAN : SnSendInteractive(posted)
SnSendStandardAny == \E posted \in BOOLEAN : SnSendStandard(posted)

NextNotify ==
  \/ SnStart
  \/ SnStoreSkipped
  \/ SnCollectDiskAny
  \/ SnSendInteractiveAny
  \/ SnSendStandardAny
  \/ SnStoreSent
  \/ SnStoreFailed

\* the event arrives before or after the Policy Engine has stored the
\* PendingApproval
InitNotify ==
  /\ snEvent \in SnEvents
  /\ snPc = "start"
  /\ snSendError = "none"
  /\ snRecord = "none"
  /\ snPending \in {"none", "pending"}
  /\ snOutcome = "running"
  /\ InitPipeline /\ InitPolicyIdle /\ InitAuthIdle /\ InitCleanupIdle
  /\ InitThresholdIdle /\ InitCacheIdle /\ InitLimiterIdle /\ InitErrorsIdle
  /\ InitMiddlewareIdle /\ InitListingIdle /\ InitSimulatorIdle
  /\ InitExecuteFixIdle /\ InitRaceIdle /\ InitPolicyOrderIdle
  /\ InitRollbackStepsIdle /\ InitProbeIdle /\ InitCacheRaceIdle
  /\ InitMonitorIdle

SpecNotify == InitNotify /\ [][NextNotify]_vars

\* the handler has not thrown, and once it has returned the record tells
\* what happened to the send
SnRecordTellsDelivery ==
  /\ snOutcome # "threw"
  /\ snPc = "end" =>
       /\ snOutcome = "returned"
       /\ snRecord = IF ~snEvent.webhook THEN "skipped"
                     ELSE IF snSendError = "raised" THEN "failed"
                     ELSE "sent"

C37_DefaultsSeededOnFirstUse ==
  [][\A m \in BagToSet(inbox) :
       (m.topic = "rca.completed" /\ policyRules = EmptyGroup /\ PolicyEngine(m)) =>
         /\ Has(policyRules', "default")
         /\ policyRules'["default"] = defaultRules
         /\ policyDecisions'[m.incidentId].decision
              = evaluatePolicy(rcaOf(m), defaultRules).action]_vars


\* C38: the write-through set of the State Cache writes the underlying store
\* first and the cache second; when the store write fails it raises a
\* StateCacheError (the call ends in the catch) and leaves the cache and its
\* access order unchanged; the cache-only set, as get uses it after a miss,
\* never writes the underlying store.
C38_StoreFirstThenCache ==
  [][/\ (crSet.pc = "start" /\ crSet'.pc # "start") =>
          /\ cache' = cache /\ accessOrder' = accessOrder
          /\ \/ crSet'.pc = "written" /\ store' = Put(store, CrKey, crSet.value)
             \/ crSet'.pc = "threw" /\ store' = store
     /\ (crSet.pc = "written" /\ crSet'.pc # "written") =>
          /\ crSet'.pc = "done"
          /\ store' = store
          /\ storeGet(store, CrKey) = crSet.value
          /\ CrKey \in DOMAIN cache' /\ cache'[CrKey].data = crSet.value
     /\ crSet.pc = "threw" => crSet' = crSet
     /\ (crGet.pc = "read" /\ crGet'.pc # "read") => store' = store]_vars

\* the store refused the set's write, and the get has cached what it read
\* through the cache-only set
C38_Witness ==
  /\ crSet.pc = "threw"
  /\ crGet.pc = "done" /\ crGet.missed
  /\ CrKey \in DOMAIN cache
  /\ cache[CrKey].data = storeGet(store, CrKey)
  /\ storeGet(store, CrKey) # crSet.value


\* C39: writing a new value for a key that is already in the State Cache
\* never evicts a different key, also when the cache already holds maxSize
\* entries: after the write the set of cached keys is the same as before.
C39_RewriteKeepsKeys ==
  [][\A key \in CacheKeys, value \in CacheValues :
       (key \in DOMAIN cache /\ CacheSet(key, value, TRUE)) =>
         DOMAIN cache' = DOMAIN cache]_vars


(***************************************************************************)
(* The State Cache under every call it offers: get, set, invalidate,       *)
(* invalidateGroup and clear, over keys of two groups.                     *)
(***************************************************************************)
CacheGroups == {"incidents", "alerts"}

\* `${group}:${key}`
cacheKeyOf(group, key) == <<group, ":", key>>

GroupedCacheKeys ==
  {cacheKeyOf("incidents", "k1"), cacheKeyOf("incidents", "k2"),
   cacheKeyOf("alerts", "k1")}

\* for (const cacheKey of this.cache.keys())
\*   if (cacheKey.startsWith(`${group}:`)) keysToDelete.push(cacheKey)
keysToDelete(c, group) == {cacheKey \in DOMAIN c : startsWith(cacheKey, <<group, ":">>)}

RECURSIVE removeAllFromAccessOrder(_, _)
\* for (const key of keysToDelete) this.removeFromAccessOrder(key)
removeAllFromAccessOrder(order, keys) ==
  IF keys = {} THEN order
  ELSE LET key == CHOOSE k \in keys : TRUE
       IN removeAllFromAccessOrder(removeFromAccessOrder(order, key), keys \ {key})

\* stateCache.invalidateGroup(group)
CacheInvalidateGroup(group) ==
  /\ cacheOps < MaxCacheOps
  /\ cacheOps' = cacheOps + 1
  /\ cache' = [k \in DOMAIN cache \ keysToDelete(cache, group) |-> cache[k]]
  /\ accessOrder' = removeAllFromAccessOrder(accessOrder, keysToDelete(cache, group))
  /\ cachePure' = FALSE
  /\ UNCHANGED <<store, now, cacheConfig, lastGet, cacheAccess, cacheInserted>>
  /\ OutsideCache

\* stateCache.clear()
CacheClear ==
  /\ cacheOps < MaxCacheOps
  /\ cacheOps' = cacheOps + 1
  /\ cache' = <<>>
  /\ accessOrder' = <<>>
  /\ cachePure' = FALSE
  /\ UNCHANGED <<store, now, cacheConfig, lastGet, cacheAccess, cacheInserted>>
  /\ OutsideCache

GroupedGet == \E key \in GroupedCacheKeys, storeOk \in BOOLEAN : CacheGet(key, storeOk)
GroupedSet ==
  \E key \in GroupedCacheKeys, value \in CacheValues, storeOk \in BOOLEAN :
    CacheSet(key, value, storeOk)
GroupedInvalidate == \E key \in GroupedCacheKeys : CacheInvalidate(key)
GroupedInvalidateGroup == \E group \in CacheGroups : CacheInvalidateGroup(group)

NextCacheCalls ==
  \/ GroupedGet
  \/ GroupedSet
  \/ GroupedInvalidate
  \/ GroupedInvalidateGroup
  \/ CacheClear
  \/ ClockTick

SpecCacheCalls == InitCache /\ [][NextCacheCalls]_vars

\* C40: after any sequence of get, set, invalidate, invalidateGroup and
\* clear calls made with one fixed config whose maxSize is N >= 1, the State
\* Cache holds at most N entries and its LRU access-order list contains
\* exactly the cached keys, each exactly once.
C40_SizeAndAccessOrder ==
  cacheConfig.maxSize >= 1 =>
    /\ Cardinality(DOMAIN cache) <= cacheConfig.maxSize
    /\ SeqRange(accessOrder) = DOMAIN cache
    /\ \A i, j \in DOMAIN accessOrder : i # j => accessOrder[i] # accessOrder[j]

\* a full cache of two keys after three different keys were inserted and a
\* key was invalidated or cleared away in between
C40_Witness ==
  /\ cacheConfig.maxSize = 2
  /\ Cardinality(DOMAIN cache) = 2
  /\ Len(cacheInserted) = 3
  /\ ~cachePure

====
